---------------------------- MODULE Spec2Model ----------------------------
(***************************************************************************)
(* A model of the node core: the proof verifier, the engine handle and the *)
(* storage reads of the consensus adapter (core/consensus/src/adapter.rs), *)
(* the trie cache in front of the persistent store                         *)
(* (core/executor/src/adapter/trie_db.rs) and the mempool service over its *)
(* priority pool (core/mempool/src/lib.rs).                                *)
(*                                                                         *)
(* Each component has its own specification (SpecProof, SpecAdapter,       *)
(* SpecTrie, SpecTrieConc, SpecPool, SpecMempool, SpecOrder); the          *)
(* variables of the other components stay at their initial value.          *)
(***************************************************************************)
EXTENDS Integers, Sequences, FiniteSets, TLC

VARIABLES
    vh,         \* the verify_block_header call: its proposal, the stored header, its result
    vp,         \* the verify_proof call: its arguments, what it consulted, its result
    overlord_handler, \* OverlordConsensusAdapter.overlord_handler: "None" or the handle
    engine,     \* the messages the BFT engine has received through a handle, in order
    ad,         \* the consensus adapter call just made: its arguments and result
    cache,      \* RocksTrieDB.cache : key -> value or NoVal
    db,         \* RocksTrieDB.db, the persistent store : key -> value or NoVal
    cache_size, \* RocksTrieDB.cache_size
    trie,       \* the last TrieCache call and its result, and the history flags
    tpc,        \* the concurrent TrieCache callers: each one's position and locals
    ordq,       \* PriorityPool: the ordinary queue, in insertion order
    sysq,       \* PriorityPool: the system-script queue, in insertion order
    pool_size,  \* PriorityPool: the limit of the ordinary queue
    mp,         \* what the mempool step just taken returned (the event of that step)
    ipc,        \* the MempoolService callers: each one's position and locals
    memory_db,  \* MemoryAdapter.db, one category: encoded key -> encoded value or NoVal
    ma,         \* the MemoryAdapter step just taken: its arguments and result
    bm          \* the batch_modify call in flight: its encoded pairs not yet applied

trieVars == <<cache, db, cache_size, trie, tpc>>
poolVars == <<ordq, sysq, pool_size, mp, ipc>>
adVars == <<overlord_handler, engine, ad>>
consVars == <<vp, vh, overlord_handler, engine, ad>>
memVars == <<memory_db, ma, bm>>
vars == <<vp, vh, overlord_handler, engine, ad, cache, db, cache_size, trie, tpc, ordq, sysq, pool_size, mp, ipc,
          memory_db, ma, bm>>

(***************************************************************************)
(* Helpers on sequences.                                                   *)
(***************************************************************************)
Range(s) == {s[i] : i \in 1..Len(s)}

Min(a, b) == IF a <= b THEN a ELSE b

RECURSIVE SumSeq(_)
SumSeq(s) == IF s = <<>> THEN 0 ELSE Head(s) + SumSeq(Tail(s))

SeqsUpTo(S, n) == UNION {[1..k -> S] : k \in 0..n}

(***************************************************************************)
(*                         PROOF VERIFICATION                              *)
(***************************************************************************)

\* Bounds and domains of the verifier's inputs.
MaxVerifiers == 3
MaxNumber == 1
Addresses == {"A", "B"}
Weights == {1, 2}
BlockHashes == {"h1", "h2"}
\* bitmap bytes: the three most significant bits select authorities 0, 1, 2
BitmapBytes == {0, 32, 64, 96, 128, 160, 192, 224}

AddrLess(a, b) == a = "A" /\ b = "B"

\* metadata.verifier_list. Every verifier has a BLS key of its own: it is
\* modelled by the verifier's position in the list.
VerifierLists ==
    {[i \in DOMAIN f |-> [pub_key |-> f[i].pub_key, vote_weight |-> f[i].vote_weight,
                          bls_pub_key |-> i]] :
        f \in UNION {[1..n -> [pub_key : Addresses, vote_weight : Weights]] :
                        n \in 1..MaxVerifiers}}

\* metadata.version is the half-open range <<start, end>>
Versions == {<<0, 1>>, <<1, 4>>}

Metadatas == [version : Versions, verifier_list : VerifierLists]

\* what vp.metadata holds when get_metadata was not called, and when it failed
NoMetadata == [version |-> <<0, 0>>, verifier_list |-> <<>>]
MetadataErr == [version |-> <<1, 0>>, verifier_list |-> <<>>]

VoteOf(proof) ==
    [height |-> proof.number, round |-> proof.round, block_hash |-> proof.block_hash]

\* An aggregated signature is modelled by what it was made from: the BLS keys
\* of its signers and the vote they signed.
SignaturesFor(number, round, block_hash) ==
    [signers : SUBSET (1..MaxVerifiers),
     vote : {[height |-> number, round |-> r, block_hash |-> block_hash] : r \in {round, round + 1}}]

\* the block's hash field stands for Hasher::digest(Proposal::from(block).encode())
Blocks == [number : 0..MaxNumber, hash : {"h1"}]

Proofs ==
    UNION {[number : {n}, round : {0}, block_hash : {h},
            bitmap : SeqsUpTo(BitmapBytes, 1),
            signature : SignaturesFor(n, 0, h)] :
                n \in 0..MaxNumber, h \in BlockHashes}

\* BitVec::from_bytes: bit i (from 0) of the bitmap, most significant bit first
BitAt(bitmap, i) == (bitmap[(i \div 8) + 1] \div (2 ^ (7 - (i % 8)))) % 2

\* Vec::sort on Node, whose order is the order of the addresses (stable)
RECURSIVE SortByAddress(_)
SortByAddress(list) ==
    IF list = <<>> THEN <<>>
    ELSE LET n == Len(list)
             x == list[n]
             rest == SortByAddress(SubSeq(list, 1, n - 1))
             k == Cardinality({i \in 1..Len(rest) : ~AddrLess(x.pub_key, rest[i].pub_key)})
         IN SubSeq(rest, 1, k) \o <<x>> \o SubSeq(rest, k + 1, Len(rest))

\* overlord's extract_voters: sorts the authority list, then keeps the address
\* of every authority whose bit is set (the zip stops at the shorter of the two)
RECURSIVE VotersFrom(_, _, _)
VotersFrom(sorted, bitmap, i) ==
    IF i >= Min(8 * Len(bitmap), Len(sorted)) THEN <<>>
    ELSE (IF BitAt(bitmap, i) = 1 THEN <<sorted[i + 1].pub_key>> ELSE <<>>)
         \o VotersFrom(sorted, bitmap, i + 1)

extract_voters(authority_list, bitmap) == VotersFrom(SortByAddress(authority_list), bitmap, 0)

\* collect::<HashMap<Address, u32>>() over the sorted authority list: a later
\* entry with the same address replaces the earlier one
weight_map_of(authority_list) ==
    LET sorted == SortByAddress(authority_list)
        keys == {sorted[i].pub_key : i \in 1..Len(sorted)}
        last(a) == CHOOSE i \in 1..Len(sorted) :
                      /\ sorted[i].pub_key = a
                      /\ \A j \in 1..Len(sorted) : sorted[j].pub_key = a => j <= i
    IN [a \in keys |-> sorted[last(a)].vote_weight]

RECURSIVE SumMap(_, _)
SumMap(m, keys) ==
    IF keys = {} THEN 0
    ELSE LET k == CHOOSE x \in keys : TRUE IN m[k] + SumMap(m, keys \ {k})

RECURSIVE Accumulate(_, _)
Accumulate(weight_map, signed_voters) ==
    IF signed_voters = <<>> THEN 0
    ELSE weight_map[Head(signed_voters)] + Accumulate(weight_map, Tail(signed_voters))

verify_proof_weight(weight_map, signed_voters) ==
    LET total_validator_weight == SumMap(weight_map, DOMAIN weight_map)
    IN IF \E i \in 1..Len(signed_voters) : signed_voters[i] \notin DOMAIN weight_map
       THEN "Validator"
       ELSE IF 3 * Accumulate(weight_map, signed_voters) <= 2 * total_validator_weight
            THEN "Weight"
            ELSE "Ok"

\* the filter_map over metadata.verifier_list, in list order
hex_pubkeys_of(verifier_list, signed_voters) ==
    LET keep(i) == verifier_list[i].pub_key \in Range(signed_voters)
        F[i \in 0..Len(verifier_list)] ==
            IF i = 0 THEN <<>>
            ELSE IF keep(i) THEN Append(F[i - 1], verifier_list[i].bls_pub_key) ELSE F[i - 1]
    IN F[Len(verifier_list)]

\* inner_verify_aggregated_signature: the aggregate verifies iff it was made
\* by exactly the given keys over the given vote
verify_proof_signature(vote, signature, vote_keys) ==
    IF signature.vote = vote /\ signature.signers = Range(vote_keys)
       /\ Cardinality(Range(vote_keys)) = Len(vote_keys)
    THEN "Ok" ELSE "Signature"

\* the same checks without the return for block 0
verify_proof_header_no_genesis(block, proof) ==
    IF block.number # proof.number THEN "HeightMismatch"
    ELSE IF block.hash # proof.block_hash THEN "HashMismatch"
    ELSE "get_metadata"

\* the checks of verify_proof that precede get_metadata
verify_proof_header(block, proof) ==
    IF block.number = 0 THEN "Ok"
    ELSE IF block.number # proof.number THEN "HeightMismatch"
    ELSE IF block.hash # proof.block_hash THEN "HashMismatch"
    ELSE "get_metadata"

\* a verify_proof that checks the aggregate signature before the weight
verify_proof_body_signature_first(block, proof, metadata) ==
    IF metadata = MetadataErr THEN "MetadataErr"
    ELSE IF ~(metadata.version[1] <= block.number /\ block.number < metadata.version[2])
    THEN "ConfusedMetadata"
    ELSE LET signed_voters == extract_voters(metadata.verifier_list, proof.bitmap)
             sig == verify_proof_signature(VoteOf(proof), proof.signature,
                                           hex_pubkeys_of(metadata.verifier_list, signed_voters))
         IN IF sig # "Ok" THEN sig
            ELSE verify_proof_weight(weight_map_of(metadata.verifier_list), signed_voters)

\* the rest of verify_proof, given what get_metadata returned
verify_proof_body(block, proof, metadata) ==
    IF metadata = MetadataErr THEN "MetadataErr"
    ELSE IF ~(metadata.version[1] <= block.number /\ block.number < metadata.version[2])
    THEN "ConfusedMetadata"
    ELSE LET signed_voters == extract_voters(metadata.verifier_list, proof.bitmap)
             weight == verify_proof_weight(weight_map_of(metadata.verifier_list), signed_voters)
         IN IF weight # "Ok" THEN weight
            ELSE verify_proof_signature(VoteOf(proof), proof.signature,
                                        hex_pubkeys_of(metadata.verifier_list, signed_voters))

verify_proof(block, proof, metadata) ==
    IF verify_proof_header(block, proof) # "get_metadata"
    THEN verify_proof_header(block, proof)
    ELSE verify_proof_body(block, proof, metadata)

VpIdle == [pc |-> "idle", block |-> [number |-> 0, hash |-> "h1"],
           proof |-> [number |-> 0, round |-> 0, block_hash |-> "h1", bitmap |-> <<>>,
                      signature |-> [signers |-> {}, vote |-> [height |-> 0, round |-> 0, block_hash |-> "h1"]]],
           metadata |-> NoMetadata, result |-> "none"]

\* One call of verify_proof(ctx, block, proof). The metadata is what
\* self.metadata.get_metadata returns when the call gets that far.
VerifyProof ==
    /\ vp.pc = "idle"
    /\ vh.pc = "idle"
    /\ \E block \in Blocks, proof \in Proofs :
          IF verify_proof_header(block, proof) = "get_metadata"
          THEN \E metadata \in Metadatas \cup {MetadataErr} :
                  vp' = [pc |-> "done", block |-> block, proof |-> proof,
                         metadata |-> metadata,
                         result |-> verify_proof(block, proof, metadata)]
          ELSE vp' = [pc |-> "done", block |-> block, proof |-> proof,
                      metadata |-> NoMetadata,
                      result |-> verify_proof(block, proof, NoMetadata)]
    /\ UNCHANGED <<vh, adVars, trieVars, poolVars, memVars>>

\* get_block_header_by_number answers with the stored header, here its hash,
\* or with an error when none is stored
HeaderAnswers == BlockHashes \cup {"none"}
Proposals == [number : 0..(MaxNumber + 1), prev_hash : BlockHashes]

VhResult(kind, number) == [kind |-> kind, number |-> number]

\* a verify_block_header that compares nothing
verify_block_header_no_compare(proposal, previous) ==
    IF previous = "none" THEN VhResult("GetBlockHeader", 0) ELSE VhResult("Ok", 0)

\* verify_block_header, given what get_block_header_by_number(number - 1) answers
verify_block_header(proposal, previous) ==
    IF previous = "none" THEN VhResult("GetBlockHeader", 0)
    ELSE IF previous # proposal.prev_hash
    THEN VhResult("PreviousBlockHash", proposal.number)
    ELSE VhResult("Ok", 0)

VhIdle == [pc |-> "idle", proposal |-> [number |-> 0, prev_hash |-> "h1"],
           previous |-> "none", lookup |-> "none", result |-> VhResult("none", 0)]

\* One call of verify_block_header(ctx, proposal). proposal.number - 1 is a
\* u64 subtraction: for number 0 it panics where overflow is checked and
\* otherwise asks for header 2^64 - 1, which is not stored. lookup is the
\* header get_block_header_by_number was asked for: "none" when it was not
\* called, "previous" for number - 1, "u64_max" for 2^64 - 1.
VerifyBlockHeader ==
    /\ vp.pc = "idle"
    /\ vh.pc = "idle"
    /\ \E proposal \in Proposals :
          IF proposal.number = 0
          THEN \E kind \in {"panic", "GetBlockHeader"} :
                  vh' = [pc |-> "done", proposal |-> proposal, previous |-> "none",
                         lookup |-> IF kind = "panic" THEN "none" ELSE "u64_max",
                         result |-> VhResult(kind, 0)]
          ELSE \E previous \in HeaderAnswers :
                  vh' = [pc |-> "done", proposal |-> proposal, previous |-> previous,
                         lookup |-> "previous",
                         result |-> verify_block_header(proposal, previous)]
    /\ UNCHANGED <<vp, adVars, trieVars, poolVars, memVars>>

\* the adapter before any call: OverlordConsensusAdapter::new leaves the
\* handle at None
AdNone == [op |-> "none", ret |-> "none", number |-> 0, handler |-> "None",
           send_ok |-> TRUE, answers |-> <<>>, txs |-> <<>>]

AdUnused ==
    /\ overlord_handler = "None"
    /\ engine = <<>>
    /\ ad = AdNone

\* the components a specification leaves alone
TrieUnused ==
    /\ cache = <<>>
    /\ db = <<>>
    /\ cache_size = 0
    /\ trie = <<>>
    /\ tpc = <<>>

PoolUnused ==
    /\ ordq = <<>>
    /\ sysq = <<>>
    /\ pool_size = 0
    /\ mp = <<>>
    /\ ipc = <<>>

MemUnused ==
    /\ memory_db = <<>>
    /\ ma = <<>>
    /\ bm = <<>>

InitProof == vp = VpIdle /\ vh = VhIdle /\ AdUnused /\ TrieUnused /\ PoolUnused /\ MemUnused

NextProof == VerifyProof \/ VerifyBlockHeader

SpecProof == InitProof /\ [][NextProof]_vars

(***************************************************************************)
(* C1: verify_proof rejects every non-genesis (block, proof) for which     *)
(* 3 x (sum of vote_weight of the verifiers the bitmap selects) is at most *)
(* 2 x (sum of vote_weight of all verifiers), both sums taken over the     *)
(* entries of the verifier list, also when two entries share a pub_key.    *)
(***************************************************************************)
\* the entries of the sorted verifier list the bitmap selects
SelectedEntries(verifier_list, bitmap) ==
    LET sorted == SortByAddress(verifier_list)
    IN {i \in 1..Len(sorted) : i <= 8 * Len(bitmap) /\ BitAt(bitmap, i - 1) = 1}

RECURSIVE EntryWeight(_, _)
EntryWeight(list, idx) ==
    IF idx = {} THEN 0
    ELSE LET i == CHOOSE x \in idx : TRUE IN list[i].vote_weight + EntryWeight(list, idx \ {i})

SignerWeight(metadata, proof) ==
    EntryWeight(SortByAddress(metadata.verifier_list),
                SelectedEntries(metadata.verifier_list, proof.bitmap))

TotalWeight(metadata) ==
    EntryWeight(metadata.verifier_list, 1..Len(metadata.verifier_list))

VpQuorumCase ==
    /\ vp.pc = "done"
    /\ vp.block.number # 0
    /\ vp.metadata \in Metadatas

C1_RejectsWithoutSupermajority ==
    (VpQuorumCase /\ 3 * SignerWeight(vp.metadata, vp.proof) <= 2 * TotalWeight(vp.metadata))
        => vp.result # "Ok"

\* the same with pairwise distinct pub_keys in the verifier list
DistinctPubKeys(verifier_list) ==
    \A i, j \in 1..Len(verifier_list) :
        verifier_list[i].pub_key = verifier_list[j].pub_key => i = j

C1_RejectsDistinctKeys ==
    (VpQuorumCase /\ DistinctPubKeys(vp.metadata.verifier_list)
        /\ 3 * SignerWeight(vp.metadata, vp.proof) <= 2 * TotalWeight(vp.metadata))
        => vp.result # "Ok"

C1_Witness ==
    /\ VpQuorumCase
    /\ vp.result = "Weight"
    /\ 3 * SignerWeight(vp.metadata, vp.proof) = 2 * TotalWeight(vp.metadata)

(***************************************************************************)
(* C11: verify_proof on a block with number 0 returns Ok for every proof:  *)
(* proof.number and proof.block_hash are not compared, get_metadata is not *)
(* called, and no weight or signature check decides.                       *)
(***************************************************************************)
C11_GenesisAccepted ==
    (vp.pc = "done" /\ vp.block.number = 0) =>
        /\ vp.result = "Ok"
        /\ vp.metadata = NoMetadata

\* block 0 with a proof of another number and hash, an empty bitmap and a
\* signature over another round
C11_Witness ==
    /\ vp.pc = "done"
    /\ vp.block.number = 0
    /\ vp.proof.number # 0
    /\ vp.proof.block_hash # vp.block.hash
    /\ vp.proof.bitmap = <<>>
    /\ vp.proof.signature.vote # VoteOf(vp.proof)
    /\ vp.result = "Ok"

(***************************************************************************)
(* C12: for a non-genesis block whose number and hash are those of the     *)
(* proof, whose number lies in the metadata's version range, with a        *)
(* well-formed bitmap selecting authorities holding more than 2/3 of the   *)
(* total vote weight and an aggregate signature made by exactly those      *)
(* signers over the proof's vote, verify_proof returns Ok.                 *)
(***************************************************************************)
\* one bitmap byte covers the list, and no bit beyond the list is set
WellFormedBitmap(verifier_list, bitmap) ==
    /\ Len(bitmap) = 1
    /\ \A i \in 0..7 : BitAt(bitmap, i) = 1 => i < Len(verifier_list)

\* the BLS keys of the authorities the bitmap selects
SelectedBlsKeys(verifier_list, bitmap) ==
    LET sorted == SortByAddress(verifier_list)
    IN {sorted[i].bls_pub_key : i \in SelectedEntries(verifier_list, bitmap)}

VpLegitimateCase ==
    /\ VpQuorumCase
    /\ vp.block.number = vp.proof.number
    /\ vp.block.hash = vp.proof.block_hash
    /\ vp.metadata.version[1] <= vp.block.number
    /\ vp.block.number < vp.metadata.version[2]
    /\ WellFormedBitmap(vp.metadata.verifier_list, vp.proof.bitmap)
    /\ 3 * SignerWeight(vp.metadata, vp.proof) > 2 * TotalWeight(vp.metadata)
    /\ vp.proof.signature.vote = VoteOf(vp.proof)
    /\ vp.proof.signature.signers
          = SelectedBlsKeys(vp.metadata.verifier_list, vp.proof.bitmap)

C12_AcceptsSupermajority == VpLegitimateCase => vp.result = "Ok"

\* the same with pairwise distinct pub_keys in the verifier list
C12_AcceptsDistinctKeys ==
    (VpLegitimateCase /\ DistinctPubKeys(vp.metadata.verifier_list)) => vp.result = "Ok"

(***************************************************************************)
(* C13: for a proposal whose predecessor header is stored,                 *)
(* verify_block_header succeeds if and only if the hash of that header     *)
(* equals proposal.prev_hash; when they differ it fails with               *)
(* VerifyBlockHeader(proposal.number, PreviousBlockHash).                  *)
(***************************************************************************)
VhStoredCase ==
    /\ vh.pc = "done"
    /\ vh.proposal.number >= 1
    /\ vh.previous # "none"

C13_HeaderLinkage ==
    VhStoredCase =>
        /\ (vh.result.kind = "Ok" <=> vh.previous = vh.proposal.prev_hash)
        /\ (vh.previous # vh.proposal.prev_hash
               => vh.result = VhResult("PreviousBlockHash", vh.proposal.number))

\* a proposal at the highest number whose prev_hash is not the stored hash
C13_Witness ==
    /\ VhStoredCase
    /\ vh.proposal.number = MaxNumber + 1
    /\ vh.previous = "h1"
    /\ vh.proposal.prev_hash = "h2"
    /\ vh.result.kind = "PreviousBlockHash"

(***************************************************************************)
(* C32: for a non-genesis block verify_proof applies its checks in a fixed *)
(* order and reports the first that fails: height mismatch, proposal-hash  *)
(* mismatch, metadata range, bitmap expansion, signer membership and       *)
(* weight, aggregate signature. A proof failing several checks is reported *)
(* with the earliest, and the result does not depend on the signature when *)
(* the weight check fails.                                                 *)
(***************************************************************************)
VpHeightFails == vp.block.number # vp.proof.number
VpHashFails == vp.block.hash # vp.proof.block_hash
VpRangeFails ==
    ~(vp.metadata.version[1] <= vp.block.number /\ vp.block.number < vp.metadata.version[2])
VpSignedVoters == extract_voters(vp.metadata.verifier_list, vp.proof.bitmap)
VpWeightResult ==
    verify_proof_weight(weight_map_of(vp.metadata.verifier_list), VpSignedVoters)
VpSignatureFails ==
    verify_proof_signature(VoteOf(vp.proof), vp.proof.signature,
                           hex_pubkeys_of(vp.metadata.verifier_list, VpSignedVoters)) # "Ok"

C32_FirstFailingCheck ==
    (vp.pc = "done" /\ vp.block.number # 0) =>
        IF VpHeightFails THEN vp.result = "HeightMismatch"
        ELSE IF VpHashFails THEN vp.result = "HashMismatch"
        ELSE IF vp.metadata = MetadataErr THEN vp.result = "MetadataErr"
        ELSE IF VpRangeFails THEN vp.result = "ConfusedMetadata"
        ELSE IF VpWeightResult # "Ok"
        THEN vp.result = VpWeightResult /\ vp.result \in {"Validator", "Weight"}
        ELSE IF VpSignatureFails THEN vp.result = "Signature"
        ELSE vp.result = "Ok"

\* a proof short of weight whose signature would not verify either
C32_Witness ==
    /\ vp.pc = "done"
    /\ vp.block.number # 0
    /\ ~VpHeightFails /\ ~VpHashFails
    /\ vp.metadata # MetadataErr /\ ~VpRangeFails
    /\ VpWeightResult = "Weight"
    /\ VpSignatureFails
    /\ vp.result = "Weight"

(***************************************************************************)
(* C33: the BLS public keys passed to the aggregate-signature check are    *)
(* exactly the keys of the verifiers the bitmap selects as signers: no key *)
(* of a non-signer is included, no key of a signer is left out, and the    *)
(* signers whose weight was counted are those whose keys are verified.     *)
(***************************************************************************)
VpReachesSignature ==
    /\ VpQuorumCase
    /\ ~VpHeightFails /\ ~VpHashFails /\ ~VpRangeFails
    /\ VpWeightResult = "Ok"

VpHexPubkeys == hex_pubkeys_of(vp.metadata.verifier_list, VpSignedVoters)

C33_KeysOfSignersDistinct ==
    (VpReachesSignature /\ DistinctPubKeys(vp.metadata.verifier_list)) =>
        /\ Range(VpHexPubkeys) = SelectedBlsKeys(vp.metadata.verifier_list, vp.proof.bitmap)
        /\ \A i, j \in 1..Len(VpHexPubkeys) : i < j => VpHexPubkeys[i] < VpHexPubkeys[j]

(***************************************************************************)
(* C38: verify_block_header computes proposal.number - 1 without           *)
(* underflow: for a proposal with number 0 it returns an error, it does    *)
(* not panic and it does not look up the header at 2^64 - 1.               *)
(***************************************************************************)
C38_NumberZeroReturnsError ==
    (vh.pc = "done" /\ vh.proposal.number = 0) =>
        /\ vh.result.kind \notin {"Ok", "panic"}
        /\ vh.lookup # "u64_max"

\* for a positive number the header asked for is the previous one
C38_PositiveNumberAsksPrevious ==
    (vh.pc = "done" /\ vh.proposal.number >= 1) =>
        /\ vh.result.kind # "panic"
        /\ vh.lookup = "previous"

(***************************************************************************)
(*                              TRIE CACHE                                 *)
(***************************************************************************)

Keys == {"k1", "k2"}
Vals == {"v1", "v2"}
NoVal == "none"
MaxCacheSize == 2
MaxBatch == 2

EmptyMap == [k \in Keys |-> NoVal]

CachedKeys(c) == {k \in Keys : c[k] # NoVal}

\* DashMap::insert, DashMap::remove, and the store's put
MapInsert(m, k, v) == [m EXCEPT ![k] = v]
MapRemove(m, k) == [m EXCEPT ![k] = NoVal]

RECURSIVE MapInsertAll(_, _, _)
MapInsertAll(m, ks, vs) ==
    IF ks = <<>> \/ vs = <<>> THEN m
    ELSE MapInsertAll(MapInsert(m, Head(ks), Head(vs)), Tail(ks), Tail(vs))

\* every key of the cache agrees with the store
CacheAgrees(c, d) == \A k \in Keys : c[k] # NoVal => c[k] = d[k]

\* last is the value of the latest successful insert of each key, miss whether
\* the get or contains just made found the key outside the cache, keys and
\* values the arguments of the insert_batch just made
TrieIdle == [op |-> "none", key |-> "none", ret |-> "none", failed |-> FALSE,
             last |-> EmptyMap, miss |-> FALSE, keys |-> <<>>, values |-> <<>>]

TrieRecord(op, key, ret, ok) ==
    [op |-> op, key |-> key, ret |-> ret, failed |-> trie.failed \/ ~ok,
     last |-> trie.last, miss |-> FALSE, keys |-> <<>>, values |-> <<>>]

TrieMiss(op, key, ret, ok) == [TrieRecord(op, key, ret, ok) EXCEPT !.miss = TRUE]

TrieInserted(op, key, ret, ok, keys, values) ==
    [TrieRecord(op, key, ret, ok) EXCEPT
        !.last = IF ok THEN MapInsertAll(@, keys, values) ELSE @]

TrieBatch(rec, keys, values) == [rec EXCEPT !.keys = keys, !.values = values]

Running == trie.ret # "panic"

\* a get that serves a miss from the store without filling the cache
RocksTrieDB_get_no_refill(key, ok) ==
    /\ Running
    /\ IF cache[key] # NoVal
       THEN trie' = TrieRecord("get", key, cache[key], TRUE)
       ELSE IF ~ok
       THEN trie' = TrieMiss("get", key, "Store", FALSE)
       ELSE trie' = TrieMiss("get", key, db[key], TRUE)
    /\ UNCHANGED <<cache, db, cache_size>>

\* inner_get / get: ok is whether self.db.get succeeds
RocksTrieDB_get(key, ok) ==
    /\ Running
    /\ IF cache[key] # NoVal
       THEN /\ trie' = TrieRecord("get", key, cache[key], TRUE)
            /\ UNCHANGED cache
       ELSE IF ~ok
       THEN /\ trie' = TrieMiss("get", key, "Store", FALSE)
            /\ UNCHANGED cache
       ELSE /\ cache' = (IF db[key] # NoVal THEN MapInsert(cache, key, db[key]) ELSE cache)
            /\ trie' = TrieMiss("get", key, db[key], TRUE)
    /\ UNCHANGED <<db, cache_size>>

RocksTrieDB_contains(key, ok) ==
    /\ Running
    /\ IF cache[key] # NoVal
       THEN /\ trie' = TrieRecord("contains", key, "true", TRUE)
            /\ UNCHANGED cache
       ELSE IF ~ok
       THEN /\ trie' = TrieMiss("contains", key, "Store", FALSE)
            /\ UNCHANGED cache
       ELSE /\ cache' = (IF db[key] # NoVal THEN MapInsert(cache, key, db[key]) ELSE cache)
            /\ trie' = TrieMiss("contains", key, IF db[key] # NoVal THEN "true" ELSE "false", TRUE)
    /\ UNCHANGED <<db, cache_size>>

\* insert that keeps the value of a key already cached (entry().or_insert())
RocksTrieDB_insert_keep_cached(key, value, ok) ==
    /\ Running
    /\ cache' = (IF cache[key] = NoVal THEN MapInsert(cache, key, value) ELSE cache)
    /\ db' = (IF ok THEN MapInsert(db, key, value) ELSE db)
    /\ trie' = TrieInserted("insert", key, IF ok THEN "Ok" ELSE "Store", ok, <<key>>, <<value>>)
    /\ UNCHANGED cache_size

\* insert: the cache is written first, then the store; ok is whether db.put succeeds
RocksTrieDB_insert(key, value, ok) ==
    /\ Running
    /\ cache' = MapInsert(cache, key, value)
    /\ db' = (IF ok THEN MapInsert(db, key, value) ELSE db)
    /\ trie' = TrieInserted("insert", key, IF ok THEN "Ok" ELSE "Store", ok, <<key>>, <<value>>)
    /\ UNCHANGED cache_size

\* an insert_batch without the length test: the pairs the zip yields are written
RocksTrieDB_insert_batch_no_length_check(keys, values, ok) ==
    /\ Running
    /\ LET n == Min(Len(keys), Len(values))
           ks == SubSeq(keys, 1, n)
           vs == SubSeq(values, 1, n)
       IN /\ cache' = MapInsertAll(cache, ks, vs)
          /\ db' = (IF ok THEN MapInsertAll(db, ks, vs) ELSE db)
          /\ trie' = TrieBatch(TrieInserted("insert_batch", "none",
                                            IF ok THEN "Ok" ELSE "Store", ok, ks, vs),
                               keys, values)
    /\ UNCHANGED cache_size

\* insert_batch: every pair goes into the cache inside the loop, the store is
\* written once after it; ok is whether db.write succeeds
RocksTrieDB_insert_batch(keys, values, ok) ==
    /\ Running
    /\ IF Len(keys) # Len(values)
       THEN /\ trie' = TrieBatch(TrieRecord("insert_batch", "none", "BatchLengthMismatch", TRUE),
                                 keys, values)
            /\ UNCHANGED <<cache, db>>
       ELSE /\ cache' = MapInsertAll(cache, keys, values)
            /\ db' = (IF ok THEN MapInsertAll(db, keys, values) ELSE db)
            /\ trie' = TrieBatch(TrieInserted("insert_batch", "none",
                                              IF ok THEN "Ok" ELSE "Store", ok, keys, values),
                                 keys, values)
    /\ UNCHANGED cache_size

\* a remove that deletes the key from the cache and from the store
RocksTrieDB_remove_deletes(key) ==
    /\ Running
    /\ cache' = MapRemove(cache, key)
    /\ db' = MapRemove(db, key)
    /\ trie' = TrieRecord("remove", key, "Ok", TRUE)
    /\ UNCHANGED cache_size

\* remove: a no-op
RocksTrieDB_remove(key) ==
    /\ Running
    /\ trie' = TrieRecord("remove", key, "Ok", TRUE)
    /\ UNCHANGED <<cache, db, cache_size>>

RocksTrieDB_remove_batch(keys) ==
    /\ Running
    /\ trie' = TrieRecord("remove_batch", "none", "Ok", TRUE)
    /\ UNCHANGED <<cache, db, cache_size>>

\* the orders in which DashMap::iter may yield the keys
Orders(S) == {o \in [1..Cardinality(S) -> S] : \A i, j \in DOMAIN o : o[i] = o[j] => i = j}

RemoveAt(s, i) == SubSeq(s, 1, i - 1) \o SubSeq(s, i + 1, Len(s))

\* rand_remove_list(keys, num): draws[i] is what rng.gen_range(0..len) returns
\* in round i, and num is Len(draws). gen_range panics on the empty range 0..0.
RECURSIVE rand_remove_rounds(_, _, _, _, _)
rand_remove_rounds(keys, idx_list, len, draws, ret) ==
    IF draws = <<>> THEN ret
    ELSE IF len = 0 THEN <<"panic">>
    ELSE LET tmp == Head(draws)
             idx == idx_list[tmp + 1]
         IN rand_remove_rounds(keys, RemoveAt(idx_list, tmp + 1), len - 1, Tail(draws),
                               Append(ret, keys[idx + 1]))

rand_remove_list(keys, draws) ==
    LET len == Len(keys) - 1
    IN rand_remove_rounds(keys, [i \in 1..len |-> i - 1], len, draws, <<>>)

\* what the generator can return in the num rounds of rand_remove_list over n
\* keys: round i draws from 0..len with len = n - 1 - (i - 1) (nothing is
\* drawn from an empty range: the call panics there)
Draws(n, num) ==
    {d \in [1..num -> 0..(IF n >= 2 THEN n - 2 ELSE 0)] :
        \A i \in 1..num : IF n - i > 0 THEN d[i] < n - i ELSE d[i] = 0}

RECURSIVE MapRemoveAll(_, _)
MapRemoveAll(m, ks) ==
    IF ks = <<>> THEN m ELSE MapRemoveAll(MapRemove(m, Head(ks)), Tail(ks))

\* flush: keys is the order the cache iterates in, draws the generator's
\* output; the record of an evicting flush keeps the key list
RocksTrieDB_flush(keys, draws) ==
    /\ Running
    /\ LET len == Cardinality(CachedKeys(cache))
       IN IF len <= cache_size
          THEN /\ trie' = TrieRecord("flush", "none", "Ok", TRUE)
               /\ UNCHANGED cache
          ELSE /\ Len(draws) = len - cache_size
               /\ LET remove_list == rand_remove_list(keys, draws)
                  IN IF remove_list = <<"panic">>
                     THEN /\ trie' = [TrieRecord("flush", "none", "panic", TRUE)
                                         EXCEPT !.keys = keys]
                          /\ UNCHANGED cache
                     ELSE /\ cache' = MapRemoveAll(cache, remove_list)
                          /\ trie' = [TrieRecord("flush", "none", "Ok", TRUE)
                                         EXCEPT !.keys = keys]
    /\ UNCHANGED <<db, cache_size>>

TrieGet == \E k \in Keys, ok \in BOOLEAN : RocksTrieDB_get(k, ok)
TrieContains == \E k \in Keys, ok \in BOOLEAN : RocksTrieDB_contains(k, ok)
TrieInsert == \E k \in Keys, v \in Vals, ok \in BOOLEAN : RocksTrieDB_insert(k, v, ok)
\* the batches tried: equal lengths with every content, and one batch for
\* each way the lengths can differ (the content is then never read)
BatchValues(ks) ==
    [1..Len(ks) -> Vals] \cup {[i \in 1..(Len(ks) + 1) |-> "v1"]}
        \cup (IF ks = <<>> THEN {} ELSE {[i \in 1..(Len(ks) - 1) |-> "v1"]})

TrieInsertBatch ==
    \E ks \in SeqsUpTo(Keys, MaxBatch) : \E vs \in BatchValues(ks) :
        \E ok \in (IF Len(ks) = Len(vs) THEN BOOLEAN ELSE {TRUE}) :
            RocksTrieDB_insert_batch(ks, vs, ok)
TrieRemove == \E k \in Keys : RocksTrieDB_remove(k)
TrieRemoveBatch == \E ks \in SeqsUpTo(Keys, MaxBatch) : RocksTrieDB_remove_batch(ks)
TrieFlush ==
    LET n == Cardinality(CachedKeys(cache))
    IN \E keys \in Orders(CachedKeys(cache)) :
          \E draws \in Draws(n, IF n > cache_size THEN n - cache_size ELSE 0) :
              RocksTrieDB_flush(keys, draws)

InitTrie ==
    /\ vp = VpIdle
    /\ vh = VhIdle
    /\ MemUnused
    /\ AdUnused
    /\ cache = EmptyMap
    /\ db = EmptyMap
    /\ cache_size \in 0..MaxCacheSize
    /\ trie = TrieIdle
    /\ tpc = <<>>
    /\ PoolUnused

NextTrie ==
    \/ (TrieGet /\ UNCHANGED <<consVars, tpc, poolVars, memVars>>)
    \/ (TrieContains /\ UNCHANGED <<consVars, tpc, poolVars, memVars>>)
    \/ (TrieInsert /\ UNCHANGED <<consVars, tpc, poolVars, memVars>>)
    \/ (TrieInsertBatch /\ UNCHANGED <<consVars, tpc, poolVars, memVars>>)
    \/ (TrieRemove /\ UNCHANGED <<consVars, tpc, poolVars, memVars>>)
    \/ (TrieRemoveBatch /\ UNCHANGED <<consVars, tpc, poolVars, memVars>>)
    \/ (TrieFlush /\ UNCHANGED <<consVars, tpc, poolVars, memVars>>)

SpecTrie == InitTrie /\ [][NextTrie]_vars

(***************************************************************************)
(* C2: after any sequence of TrieCache calls, one at a time, in which      *)
(* every store operation succeeded, every key present in the cache maps to *)
(* the value the store holds for it.                                       *)
(***************************************************************************)
C2_CacheEqualsStore == ~trie.failed => CacheAgrees(cache, db)

\* a key was overwritten and read back from the cache while the other key,
\* evicted by flush, is only in the store
C2_Witness ==
    /\ ~trie.failed
    /\ trie.op = "get"
    /\ trie.ret = "v2"
    /\ cache[trie.key] = "v2" /\ db[trie.key] = "v2"
    /\ \E k \in Keys : cache[k] = NoVal /\ db[k] = "v1"

(***************************************************************************)
(* C19, as stated: for every key inserted, after any number of flush calls *)
(* that may have evicted it, get(key) returns the last value inserted for  *)
(* the key and the key is in the cache again afterwards; contains(key)     *)
(* returns true and fills the cache likewise.                              *)
(***************************************************************************)
TrieReadCase ==
    /\ trie.op \in {"get", "contains"}
    /\ trie.last[trie.key] # NoVal

TrieReadGood ==
    /\ trie.ret = (IF trie.op = "get" THEN trie.last[trie.key] ELSE "true")
    /\ cache[trie.key] = trie.last[trie.key]

C20_FlushEvictsToSize ==
    trie.op = "flush" =>
        /\ trie.ret = "Ok"
        /\ Cardinality(CachedKeys(cache)) <= cache_size

\* the same for cache_size >= 1
C20_FlushEvictsToSizePositive ==
    (trie.op = "flush" /\ cache_size >= 1) =>
        /\ trie.ret = "Ok"
        /\ Cardinality(CachedKeys(cache)) <= cache_size

(***************************************************************************)
(* C40: every key of the cache's key set is eligible for eviction by       *)
(* flush: for every position i of the key list, the last one included,     *)
(* there is a draw of the generator for which rand_remove_list selects     *)
(* keys[i].                                                                *)
(***************************************************************************)
\* some draw of num rounds over keys selects keys[i]
Eligible(keys, num, i) ==
    \E draws \in Draws(Len(keys), num) : keys[i] \in Range(rand_remove_list(keys, draws))

C40_EveryKeyEligible ==
    (trie.op = "flush" /\ trie.ret = "Ok" /\ trie.keys # <<>>) =>
        \A i \in 1..Len(trie.keys) :
           Eligible(trie.keys, Len(trie.keys) - cache_size, i)

\* every position but the last is eligible, and no draw selects the last;
\* the same over the lists of three keys
C40_AllButLastEligible ==
    /\ (trie.op = "flush" /\ trie.ret = "Ok" /\ trie.keys # <<>>) =>
           \A i \in 1..Len(trie.keys) :
              Eligible(trie.keys, Len(trie.keys) - cache_size, i) <=> i < Len(trie.keys)
    /\ \A keys \in Orders({"k1", "k2", "k3"}), num \in 1..2, i \in 1..3 :
           Eligible(keys, num, i) <=> i < 3

(***************************************************************************)
(* C21: when the store write of insert or insert_batch fails, the call     *)
(* returns the Store error and no key is left in the cache with a value    *)
(* the store does not hold for it.                                         *)
(***************************************************************************)
C21_FailedWriteKeepsAgreement ==
    (trie.op \in {"insert", "insert_batch"} /\ trie.ret = "Store")
        => CacheAgrees(cache, db)

(***************************************************************************)
(* C22, as stated: insert_batch(keys, values) with keys.len() different    *)
(* from values.len() fails with the length-mismatch error and modifies     *)
(* neither the cache nor the store; with equal lengths and a successful    *)
(* store write every pair of the batch is in both cache and store.         *)
(***************************************************************************)
BatchMismatchStep ==
    /\ trie'.ret = "BatchLengthMismatch"
    /\ cache' = cache
    /\ db' = db

C22_InsertBatch ==
    [][trie'.op = "insert_batch" =>
         IF Len(trie'.keys) # Len(trie'.values)
         THEN BatchMismatchStep
         ELSE /\ trie'.ret \in {"Ok", "Store"}
              /\ trie'.ret = "Ok" =>
                    \A i \in 1..Len(trie'.keys) :
                        /\ cache'[trie'.keys[i]] = trie'.values[i]
                        /\ db'[trie'.keys[i]] = trie'.values[i]]_vars

(***************************************************************************)
(* C22, amended: the same, except that of the pairs of a batch naming a    *)
(* key more than once the last one is in cache and store on return.        *)
(***************************************************************************)
LastOfKey(keys, i) == \A j \in (i + 1)..Len(keys) : keys[j] # keys[i]

C22_InsertBatchLastPair ==
    [][trie'.op = "insert_batch" =>
         IF Len(trie'.keys) # Len(trie'.values)
         THEN BatchMismatchStep
         ELSE /\ trie'.ret \in {"Ok", "Store"}
              /\ trie'.ret = "Ok" =>
                    \A i \in 1..Len(trie'.keys) :
                        LastOfKey(trie'.keys, i) =>
                            /\ cache'[trie'.keys[i]] = trie'.values[i]
                            /\ db'[trie'.keys[i]] = trie'.values[i]]_vars

\* a batch naming one key twice with two values has been written
C22_Witness ==
    /\ trie.op = "insert_batch"
    /\ trie.ret = "Ok"
    /\ trie.keys = <<"k1", "k1">>
    /\ trie.values = <<"v1", "v2">>
    /\ cache["k1"] = "v2"
    /\ db["k1"] = "v2"

\* a batch with more values than keys has been refused
C22_MismatchRefused ==
    /\ trie.op = "insert_batch"
    /\ trie.ret = "BatchLengthMismatch"
    /\ Len(trie.keys) < Len(trie.values)

(***************************************************************************)
(* C23: remove and remove_batch return Ok and leave cache and store        *)
(* unchanged, and flush never modifies the store; after any of them, while *)
(* no store operation has failed, a get of a previously inserted key       *)
(* answers its value (from the cache, or from the store on a miss).        *)
(***************************************************************************)
get_answer(c, d, key) == IF c[key] # NoVal THEN c[key] ELSE d[key]

TrieProcs == {"t1", "t2"}

TpIdle == [pc |-> "idle", op |-> "none", key |-> "none", val |-> NoVal]

AllIdle == \A p \in TrieProcs : tpc[p].pc = "idle"

\* get / inner_get, line 49: self.cache.get(key)
Conc_get_start(p, key) ==
    /\ tpc[p].pc = "idle"
    /\ tpc' = [tpc EXCEPT ![p] = IF cache[key] # NoVal THEN TpIdle
                                 ELSE [pc |-> "db_get", op |-> "get", key |-> key, val |-> NoVal]]
    /\ UNCHANGED <<cache, db, trie>>

\* contains, line 85: self.cache.contains_key(key)
Conc_contains_start(p, key) ==
    /\ tpc[p].pc = "idle"
    /\ tpc' = [tpc EXCEPT ![p] = IF cache[key] # NoVal THEN TpIdle
                                 ELSE [pc |-> "db_get", op |-> "contains", key |-> key, val |-> NoVal]]
    /\ UNCHANGED <<cache, db, trie>>

\* lines 53 and 90: self.db.get(key) on the miss path
Conc_db_get(p, ok) ==
    /\ tpc[p].pc = "db_get"
    /\ tpc' = [tpc EXCEPT ![p] = IF ok /\ db[tpc[p].key] # NoVal
                                 THEN [tpc[p] EXCEPT !.pc = "cache_insert", !.val = db[tpc[p].key]]
                                 ELSE TpIdle]
    /\ trie' = [trie EXCEPT !.failed = trie.failed \/ ~ok]
    /\ UNCHANGED <<cache, db>>

\* lines 57 and 91: self.cache.insert(key, val) with the value read from the store
Conc_cache_insert(p) ==
    /\ tpc[p].pc = "cache_insert"
    /\ cache' = MapInsert(cache, tpc[p].key, tpc[p].val)
    /\ tpc' = [tpc EXCEPT ![p] = TpIdle]
    /\ UNCHANGED <<db, trie>>

\* insert, line 103: self.cache.insert(key, value)
Conc_insert_start(p, key, value) ==
    /\ tpc[p].pc = "idle"
    /\ cache' = MapInsert(cache, key, value)
    /\ tpc' = [tpc EXCEPT ![p] = [pc |-> "db_put", op |-> "insert", key |-> key, val |-> value]]
    /\ UNCHANGED <<db, trie>>

\* insert, line 106: self.db.put(key, value)
Conc_db_put(p, ok) ==
    /\ tpc[p].pc = "db_put"
    /\ db' = (IF ok THEN MapInsert(db, tpc[p].key, tpc[p].val) ELSE db)
    /\ trie' = [trie EXCEPT !.failed = trie.failed \/ ~ok]
    /\ tpc' = [tpc EXCEPT ![p] = TpIdle]
    /\ UNCHANGED cache

InitTrieConc ==
    /\ vp = VpIdle
    /\ vh = VhIdle
    /\ MemUnused
    /\ AdUnused
    /\ cache = EmptyMap
    /\ db \in [Keys -> Vals \cup {NoVal}]
    /\ cache_size = MaxCacheSize
    /\ trie = TrieIdle
    /\ tpc = [p \in TrieProcs |-> TpIdle]
    /\ PoolUnused

NextTrieConc ==
    \/ \E p \in TrieProcs, k \in Keys : Conc_get_start(p, k) /\ UNCHANGED <<consVars, cache_size, poolVars, memVars>>
    \/ \E p \in TrieProcs, k \in Keys : Conc_contains_start(p, k) /\ UNCHANGED <<consVars, cache_size, poolVars, memVars>>
    \/ \E p \in TrieProcs, ok \in BOOLEAN : Conc_db_get(p, ok) /\ UNCHANGED <<consVars, cache_size, poolVars, memVars>>
    \/ \E p \in TrieProcs : Conc_cache_insert(p) /\ UNCHANGED <<consVars, cache_size, poolVars, memVars>>
    \/ \E p \in TrieProcs, k \in Keys, v \in Vals :
          Conc_insert_start(p, k, v) /\ UNCHANGED <<consVars, cache_size, poolVars, memVars>>
    \/ \E p \in TrieProcs, ok \in BOOLEAN : Conc_db_put(p, ok) /\ UNCHANGED <<consVars, cache_size, poolVars, memVars>>

SpecTrieConc == InitTrieConc /\ [][NextTrieConc]_vars

(***************************************************************************)
(* C3: under every interleaving of concurrent TrieCache calls on the same  *)
(* key, once all calls have returned (and no store operation failed) the   *)
(* cache holds for no key a value different from the store's.              *)
(***************************************************************************)
C3_QuiescentCacheEqualsStore ==
    (AllIdle /\ ~trie.failed) => CacheAgrees(cache, db)

(***************************************************************************)
(*                        PRIORITY POOL AND MEMPOOL                        *)
(***************************************************************************)

\* A transaction is named by its hash. o* are ordinary transactions, s* call
\* a system script.
PoolTxs == {"o1", "o2", "o3", "s1", "s2"}
is_call_system_script(tx) == tx \in {"s1", "s2"}
\* the priority (gas price) and the gas_limit of each transaction
Priority == [o1 |-> 1, o2 |-> 2, o3 |-> 1, s1 |-> 1, s2 |-> 3]
GasLimitOf == [o1 |-> 1, o2 |-> 2, o3 |-> 1, s1 |-> 1, s2 |-> 2]

MaxPoolSize == 3
MaxGas == 7
MaxTxNum == 5

RECURSIVE GasSum(_)
GasSum(hashes) == IF hashes = <<>> THEN 0 ELSE GasLimitOf[Head(hashes)] + GasSum(Tail(hashes))

RECURSIVE Without(_, _)
Without(q, S) ==
    IF q = <<>> THEN <<>>
    ELSE (IF Head(q) \in S THEN <<>> ELSE <<Head(q)>>) \o Without(Tail(q), S)

PoolSet(oq, sq) == Range(oq) \cup Range(sq)

PriorityPool_contains(oq, sq, hash) == hash \in PoolSet(oq, sq)

PriorityPool_len(oq) == Len(oq)

PriorityPool_reach_limit(oq, size) == Len(oq) >= size

\* an insert that does not look at the length of the ordinary queue
PriorityPool_insert_unbounded(oq, sq, size, tx) ==
    IF PriorityPool_contains(oq, sq, tx) THEN [res |-> "Dup", ordq |-> oq, sysq |-> sq]
    ELSE [res |-> "Ok", ordq |-> Append(oq, tx), sysq |-> sq]

\* insert(tx): Dup if the hash is present, ReachLimit if the ordinary queue is
\* full, else appended to the ordinary queue
PriorityPool_insert(oq, sq, size, tx) ==
    IF PriorityPool_contains(oq, sq, tx) THEN [res |-> "Dup", ordq |-> oq, sysq |-> sq]
    ELSE IF Len(oq) >= size THEN [res |-> "ReachLimit", ordq |-> oq, sysq |-> sq]
    ELSE [res |-> "Ok", ordq |-> Append(oq, tx), sysq |-> sq]

\* insert_system_script_tx(tx): same duplicate rule, appended to the system queue
PriorityPool_insert_system_script_tx(oq, sq, size, tx) ==
    IF PriorityPool_contains(oq, sq, tx) THEN [res |-> "Dup", ordq |-> oq, sysq |-> sq]
    ELSE [res |-> "Ok", ordq |-> oq, sysq |-> Append(sq, tx)]

\* a sort by descending priority that puts a later entry before its equals
RECURSIVE ByPriority_unstable(_)
ByPriority_unstable(q) ==
    IF q = <<>> THEN <<>>
    ELSE LET n == Len(q)
             x == q[n]
             rest == ByPriority_unstable(SubSeq(q, 1, n - 1))
             k == Cardinality({i \in 1..Len(rest) : Priority[rest[i]] > Priority[x]})
         IN SubSeq(rest, 1, k) \o <<x>> \o SubSeq(rest, k + 1, Len(rest))

\* the ordinary queue by descending priority, equal priorities in insertion order
RECURSIVE ByPriority(_)
ByPriority(q) ==
    IF q = <<>> THEN <<>>
    ELSE LET n == Len(q)
             x == q[n]
             rest == ByPriority(SubSeq(q, 1, n - 1))
             k == Cardinality({i \in 1..Len(rest) : Priority[rest[i]] >= Priority[x]})
         IN SubSeq(rest, 1, k) \o <<x>> \o SubSeq(rest, k + 1, Len(rest))

\* a package that adds the entry that first crosses gas_limit before stopping
RECURSIVE PackageFrom_crossing(_, _, _, _)
PackageFrom_crossing(ret, rest, gas_limit, tx_num_limit) ==
    IF rest = <<>> \/ Len(ret) >= tx_num_limit \/ GasSum(ret) > gas_limit
    THEN ret
    ELSE PackageFrom_crossing(Append(ret, Head(rest)), Tail(rest), gas_limit, tx_num_limit)

\* the ordinary part of package: hashes are added in order until tx_num_limit
\* is reached or the running sum of gas_limit would exceed gas_limit
RECURSIVE PackageFrom(_, _, _, _)
PackageFrom(ret, rest, gas_limit, tx_num_limit) ==
    IF rest = <<>> \/ Len(ret) >= tx_num_limit
       \/ GasSum(ret) + GasLimitOf[Head(rest)] > gas_limit
    THEN ret
    ELSE PackageFrom(Append(ret, Head(rest)), Tail(rest), gas_limit, tx_num_limit)

\* package(gas_limit, tx_num_limit): all system-queue hashes (FIFO), then the
\* ordinary-queue hashes by descending priority under the two limits
PriorityPool_package(oq, sq, gas_limit, tx_num_limit) ==
    PackageFrom(sq, ByPriority(oq), gas_limit, tx_num_limit)

\* flush, first part: every transaction whose hash is in hashes is removed
PriorityPool_flush_remove(oq, sq, hashes) ==
    [ordq |-> Without(oq, hashes), sysq |-> Without(sq, hashes)]

\* flush, second part: every survivor that fails nonce_check is removed;
\* nonce_ok is the set of transactions that pass it
PriorityPool_flush_nonce(oq, sq, nonce_ok) ==
    [ordq |-> Without(oq, PoolTxs \ nonce_ok), sysq |-> Without(sq, PoolTxs \ nonce_ok)]

\* flush(hashes, nonce_check), run without interleaving
PriorityPool_flush(oq, sq, hashes, nonce_ok) ==
    LET r == PriorityPool_flush_remove(oq, sq, hashes)
    IN PriorityPool_flush_nonce(r.ordq, r.sysq, nonce_ok)

MpNone == [ev |-> "none", tx |-> "none", res |-> "none", hashes |-> <<>>,
           set |-> {}, ok |-> {}, before |-> {}, gas_limit |-> 0,
           tx_num_limit |-> 0, log |-> <<>>, ordq |-> <<>>, sysq |-> <<>>,
           inserted |-> {}, during |-> {}, network_origin |-> FALSE]

\* what the adapter answers during one insert: the three checks, whether the
\* context marks the transaction as coming from the network, and the broadcast
\* (an answer insert_tx never asks for is fixed to TRUE)
AdapterAnswers ==
    {a \in [auth : BOOLEAN, tx : BOOLEAN, exist : BOOLEAN,
            network_origin : BOOLEAN, bcast : BOOLEAN] :
        /\ (~a.auth => a.tx)
        /\ (~(a.auth /\ a.tx) => a.exist)
        /\ (~(a.auth /\ a.tx /\ a.exist) => a.network_origin)
        /\ (a.network_origin => a.bcast)}

InsertResult(res, oq, sq, log) == [res |-> res, ordq |-> oq, sysq |-> sq, log |-> log]

\* insert_tx lines 113-117: the queue a checked transaction goes to
pool_insert_by_type(oq, sq, size, tx, is_system_script) ==
    IF is_system_script
    THEN PriorityPool_insert_system_script_tx(oq, sq, size, tx)
    ELSE PriorityPool_insert(oq, sq, size, tx)

\* a follow-up that broadcasts whatever the origin and reports the peer as well
insert_tx_notify_both(r, log, a) ==
    InsertResult(IF a.bcast THEN "Ok" ELSE "broadcast_tx", r.ordq, r.sysq,
                 IF a.bcast THEN log \o <<"broadcast_tx", "report_good">>
                 ELSE Append(log, "broadcast_tx"))

\* insert_tx lines 119-123, after the pool accepted the transaction
insert_tx_notify(r, log, a) ==
    IF ~a.network_origin
    THEN InsertResult(IF a.bcast THEN "Ok" ELSE "broadcast_tx", r.ordq, r.sysq,
                      Append(log, "broadcast_tx"))
    ELSE InsertResult("Ok", r.ordq, r.sysq, Append(log, "report_good"))

\* an insert_tx that puts the transaction in the pool before the checks
insert_tx_pool_first(oq, sq, size, tx, is_system_script, a) ==
    LET r == pool_insert_by_type(oq, sq, size, tx, is_system_script)
    IN IF PriorityPool_reach_limit(oq, size) THEN InsertResult("ReachLimit", oq, sq, <<>>)
       ELSE IF r.res # "Ok" THEN InsertResult(r.res, oq, sq, <<"pool_insert">>)
       ELSE IF ~a.auth
       THEN InsertResult("check_authorization", r.ordq, r.sysq,
                         <<"pool_insert", "check_authorization">>)
       ELSE IF ~a.tx
       THEN InsertResult("check_transaction", r.ordq, r.sysq,
                         <<"pool_insert", "check_authorization", "check_transaction">>)
       ELSE IF ~a.exist
       THEN InsertResult("check_storage_exist", r.ordq, r.sysq,
                         <<"pool_insert", "check_authorization", "check_transaction",
                           "check_storage_exist">>)
       ELSE insert_tx_notify(r, <<"pool_insert", "check_authorization", "check_transaction",
                                  "check_storage_exist">>, a)

\* an insert_tx that takes the transaction out of the pool again when the
\* broadcast fails
insert_tx_undo_on_broadcast_error(oq, sq, size, tx, is_system_script, a) ==
    IF PriorityPool_reach_limit(oq, size) THEN InsertResult("ReachLimit", oq, sq, <<>>)
    ELSE IF ~a.auth THEN InsertResult("check_authorization", oq, sq, <<"check_authorization">>)
    ELSE IF ~a.tx
    THEN InsertResult("check_transaction", oq, sq, <<"check_authorization", "check_transaction">>)
    ELSE IF ~a.exist
    THEN InsertResult("check_storage_exist", oq, sq,
                      <<"check_authorization", "check_transaction", "check_storage_exist">>)
    ELSE LET log == <<"check_authorization", "check_transaction", "check_storage_exist",
                      "pool_insert">>
             r == pool_insert_by_type(oq, sq, size, tx, is_system_script)
             n == insert_tx_notify(r, log, a)
         IN IF r.res # "Ok" THEN InsertResult(r.res, oq, sq, log)
            ELSE IF n.res = "broadcast_tx" THEN InsertResult(n.res, oq, sq, n.log)
            ELSE n

\* an insert_tx whose reach_limit test is skipped for system-script transactions
insert_tx_limit_ordinary_only(oq, sq, size, tx, is_system_script, a) ==
    IF ~is_system_script /\ PriorityPool_reach_limit(oq, size)
    THEN InsertResult("ReachLimit", oq, sq, <<>>)
    ELSE IF ~a.auth THEN InsertResult("check_authorization", oq, sq, <<"check_authorization">>)
    ELSE IF ~a.tx
    THEN InsertResult("check_transaction", oq, sq, <<"check_authorization", "check_transaction">>)
    ELSE IF ~a.exist
    THEN InsertResult("check_storage_exist", oq, sq,
                      <<"check_authorization", "check_transaction", "check_storage_exist">>)
    ELSE LET log == <<"check_authorization", "check_transaction", "check_storage_exist",
                      "pool_insert">>
             r == pool_insert_by_type(oq, sq, size, tx, is_system_script)
         IN IF r.res # "Ok" THEN InsertResult(r.res, oq, sq, log)
            ELSE insert_tx_notify(r, log, a)

\* an insert_tx without the reach_limit test of its first lines
insert_tx_no_limit_test(oq, sq, size, tx, is_system_script, a) ==
    IF ~a.auth THEN InsertResult("check_authorization", oq, sq, <<"check_authorization">>)
    ELSE IF ~a.tx
    THEN InsertResult("check_transaction", oq, sq, <<"check_authorization", "check_transaction">>)
    ELSE IF ~a.exist
    THEN InsertResult("check_storage_exist", oq, sq,
                      <<"check_authorization", "check_transaction", "check_storage_exist">>)
    ELSE LET log == <<"check_authorization", "check_transaction", "check_storage_exist",
                      "pool_insert">>
             r == pool_insert_by_type(oq, sq, size, tx, is_system_script)
         IN IF r.res # "Ok" THEN InsertResult(r.res, oq, sq, log)
            ELSE insert_tx_notify(r, log, a)

\* the whole of insert_tx, run without interleaving: its result, the queues it
\* leaves and the adapter and pool calls it made, in order
insert_tx(oq, sq, size, tx, is_system_script, a) ==
    IF PriorityPool_reach_limit(oq, size) THEN InsertResult("ReachLimit", oq, sq, <<>>)
    ELSE IF ~a.auth THEN InsertResult("check_authorization", oq, sq, <<"check_authorization">>)
    ELSE IF ~a.tx
    THEN InsertResult("check_transaction", oq, sq, <<"check_authorization", "check_transaction">>)
    ELSE IF ~a.exist
    THEN InsertResult("check_storage_exist", oq, sq,
                      <<"check_authorization", "check_transaction", "check_storage_exist">>)
    ELSE LET log == <<"check_authorization", "check_transaction", "check_storage_exist",
                      "pool_insert">>
             r == pool_insert_by_type(oq, sq, size, tx, is_system_script)
         IN IF r.res # "Ok" THEN InsertResult(r.res, oq, sq, log)
            ELSE insert_tx_notify(r, log, a)

\* MemPool::insert: classifies the transaction, then insert_tx
MemPoolImpl_insert(tx, a) ==
    LET r == insert_tx(ordq, sysq, pool_size, tx, is_call_system_script(tx), a)
    IN /\ ordq' = r.ordq
       /\ sysq' = r.sysq
       /\ mp' = [MpNone EXCEPT !.ev = "insert", !.tx = tx, !.res = r.res, !.log = r.log,
                               !.before = PoolSet(ordq, sysq), !.ordq = ordq, !.sysq = sysq,
                               !.network_origin = a.network_origin]
       /\ UNCHANGED <<pool_size, ipc>>

\* a package that takes the hashes it returns out of the queues
MemPoolImpl_package_drains(gas_limit, tx_num_limit) ==
    LET txs == PriorityPool_package(ordq, sysq, gas_limit, tx_num_limit)
    IN /\ mp' = [MpNone EXCEPT !.ev = "package", !.res = "Ok", !.hashes = txs,
                               !.gas_limit = gas_limit, !.tx_num_limit = tx_num_limit]
       /\ ordq' = Without(ordq, Range(txs))
       /\ sysq' = Without(sysq, Range(txs))
       /\ UNCHANGED <<pool_size, ipc>>

\* MemPool::package: delegates to the pool with tx_num_limit as usize
MemPoolImpl_package(gas_limit, tx_num_limit) ==
    /\ mp' = [MpNone EXCEPT !.ev = "package", !.res = "Ok",
                            !.hashes = PriorityPool_package(ordq, sysq, gas_limit, tx_num_limit),
                            !.gas_limit = gas_limit, !.tx_num_limit = tx_num_limit]
    /\ UNCHANGED <<ordq, sysq, pool_size, ipc>>

\* a flush whose nonce check accepts every transaction
MemPoolImpl_flush_no_nonce_check(tx_hashes, auth_ok) ==
    LET r == PriorityPool_flush(ordq, sysq, tx_hashes, PoolTxs)
    IN /\ ordq' = r.ordq
       /\ sysq' = r.sysq
       /\ mp' = [MpNone EXCEPT !.ev = "flush", !.res = "Ok", !.set = tx_hashes,
                               !.ok = auth_ok, !.before = PoolSet(ordq, sysq)]
       /\ UNCHANGED <<pool_size, ipc>>

\* a flush that hands the pool no committed hashes
MemPoolImpl_flush_nonce_only(tx_hashes, auth_ok) ==
    LET r == PriorityPool_flush(ordq, sysq, {}, auth_ok)
    IN /\ ordq' = r.ordq
       /\ sysq' = r.sysq
       /\ mp' = [MpNone EXCEPT !.ev = "flush", !.res = "Ok", !.set = tx_hashes,
                               !.ok = auth_ok, !.before = PoolSet(ordq, sysq)]
       /\ UNCHANGED <<pool_size, ipc>>

\* MemPool::flush: nonce_check(tx) is check_authorization(tx).is_ok(); auth_ok
\* is the set of transactions the adapter authorizes during this flush
MemPoolImpl_flush(tx_hashes, auth_ok) ==
    LET r == PriorityPool_flush(ordq, sysq, tx_hashes, auth_ok)
    IN /\ ordq' = r.ordq
       /\ sysq' = r.sysq
       /\ mp' = [MpNone EXCEPT !.ev = "flush", !.res = "Ok", !.set = tx_hashes,
                               !.ok = auth_ok, !.before = PoolSet(ordq, sysq)]
       /\ UNCHANGED <<pool_size, ipc>>

\* the flushes tried: up to two hashes, present or absent, and the
\* authorization failing for any of two transactions
FlushSets == {H \in SUBSET PoolTxs : Cardinality(H) <= 2}
AuthOkSets == {PoolTxs \ B : B \in SUBSET {"o3", "s2"}}

InitPool ==
    /\ vp = VpIdle
    /\ vh = VhIdle
    /\ MemUnused
    /\ AdUnused
    /\ TrieUnused
    /\ ordq = <<>>
    /\ sysq = <<>>
    /\ pool_size \in 1..MaxPoolSize
    /\ mp = MpNone
    /\ ipc = <<>>

NextPool ==
    \/ \E tx \in PoolTxs, a \in AdapterAnswers :
          MemPoolImpl_insert(tx, a) /\ UNCHANGED <<consVars, trieVars, memVars>>
    \/ \E g \in 0..MaxGas, n \in 0..MaxTxNum :
          MemPoolImpl_package(g, n) /\ UNCHANGED <<consVars, trieVars, memVars>>
    \/ \E H \in FlushSets, A \in AuthOkSets :
          MemPoolImpl_flush(H, A) /\ UNCHANGED <<consVars, trieVars, memVars>>

SpecPool == InitPool /\ [][NextPool]_vars

(***************************************************************************)
(* C6: package returns every system-queue hash first, in insertion order,  *)
(* then ordinary-queue hashes in non-increasing priority, equal priorities *)
(* in insertion order; no ordinary hash precedes a system hash.            *)
(***************************************************************************)
IndexIn(q, x) == CHOOSE i \in 1..Len(q) : q[i] = x

C6_PackageOrder ==
    mp.ev = "package" =>
        LET r == mp.hashes
            ns == Len(sysq)
        IN /\ Len(r) >= ns
           /\ SubSeq(r, 1, ns) = sysq
           /\ \A i \in (ns + 1)..Len(r) : r[i] \in Range(ordq)
           /\ \A i, j \in (ns + 1)..Len(r) :
                 i < j => \/ Priority[r[i]] > Priority[r[j]]
                          \/ /\ Priority[r[i]] = Priority[r[j]]
                             /\ IndexIn(ordq, r[i]) < IndexIn(ordq, r[j])

\* two system hashes in insertion order, then three ordinary hashes of which
\* the two with equal priority were inserted in the order returned
C6_Witness ==
    /\ mp.ev = "package"
    /\ Len(sysq) = 2
    /\ Len(mp.hashes) = 5
    /\ mp.hashes[3] = "o2"
    /\ IndexIn(ordq, "o2") = 3
    /\ mp.hashes[4] = "o3"

CheckErrors == {"check_authorization", "check_transaction", "check_storage_exist"}

C8_FlushedHashesAbsent ==
    mp.ev = "flush" => \A h \in mp.set : ~PriorityPool_contains(ordq, sysq, h)

\* an ordinary and a system hash, both pooled, are flushed while the nonce
\* check fails for some transaction
C8_Witness ==
    /\ mp.ev = "flush"
    /\ mp.set = {"o1", "s1"}
    /\ mp.set \subseteq mp.before
    /\ mp.ok # PoolTxs
    /\ PoolSet(ordq, sysq) # {}

(***************************************************************************)
(* C5, as stated: after insert(tx) succeeds contains(tx.hash) is true, and *)
(* an insert of a hash the pool holds fails with Dup and leaves the pool   *)
(* unchanged.                                                              *)
(***************************************************************************)
C5_SecondInsertIsDup ==
    mp.ev = "insert" =>
        /\ (mp.res = "Ok" => PriorityPool_contains(ordq, sysq, mp.tx))
        /\ (mp.tx \in mp.before => mp.res = "Dup" /\ ordq = mp.ordq /\ sysq = mp.sysq)

(***************************************************************************)
(* C5, amended: after insert(tx) succeeds contains(tx.hash) is true, and   *)
(* an insert of a hash the pool holds always fails and leaves the pool     *)
(* unchanged: with ReachLimit when the ordinary queue is full, otherwise   *)
(* with the error of the first failing check, and with Dup exactly when    *)
(* the queue is not full and the three checks pass.                        *)
(***************************************************************************)
C5_SecondInsertFails ==
    mp.ev = "insert" =>
        /\ (mp.res = "Ok" => PriorityPool_contains(ordq, sysq, mp.tx))
        /\ (mp.tx \in mp.before =>
               /\ ordq = mp.ordq /\ sysq = mp.sysq
               /\ (Len(mp.ordq) >= pool_size => mp.res = "ReachLimit")
               /\ (Len(mp.ordq) < pool_size =>
                      /\ mp.res \in CheckErrors \cup {"Dup"}
                      /\ (mp.res = "Dup" <=> "pool_insert" \in Range(mp.log))))

\* a pooled hash is inserted again while the ordinary queue is full
C5_Witness ==
    /\ mp.ev = "insert"
    /\ mp.tx \in mp.before
    /\ Len(mp.ordq) = pool_size
    /\ mp.res = "ReachLimit"

(***************************************************************************)
(* C10: insert calls check_authorization, check_transaction and            *)
(* check_storage_exist in that order and reaches the pool only after all   *)
(* three succeeded; when a check fails insert returns its error, no later  *)
(* check runs, the pool is unchanged, and the transaction is neither       *)
(* broadcast nor reported as good.                                         *)
(***************************************************************************)
InsertCalls == <<"check_authorization", "check_transaction", "check_storage_exist", "pool_insert">>

C10_ChecksBeforePool ==
    mp.ev = "insert" =>
        /\ \A i \in 1..Len(mp.log) : i <= 4 => mp.log[i] = InsertCalls[i]
        /\ Len(mp.log) <= 5
        /\ (Len(mp.log) = 5 => mp.log[5] \in {"broadcast_tx", "report_good"})
        /\ (<<ordq, sysq>> # <<mp.ordq, mp.sysq>> => Len(mp.log) >= 4)
        /\ \A i \in 1..3 :
              mp.res = InsertCalls[i] =>
                  /\ mp.log = SubSeq(InsertCalls, 1, i)
                  /\ ordq = mp.ordq
                  /\ sysq = mp.sysq

\* check_transaction fails for a transaction the non-empty pool does not hold
C10_Witness ==
    /\ mp.ev = "insert"
    /\ mp.res = "check_transaction"
    /\ mp.before # {}
    /\ mp.tx \notin mp.before

(***************************************************************************)
(* C25: after a successful pool insertion in insert exactly one follow-up  *)
(* happens: a transaction of local origin is broadcast once and no peer is *)
(* reported; one of network origin is reported as good and not broadcast.  *)
(* Neither happens before the pool insertion, nor without it.              *)
(***************************************************************************)
PoolInsertDone ==
    /\ mp.ev = "insert"
    /\ mp.tx \notin mp.before
    /\ mp.tx \in PoolSet(ordq, sysq)

C25_OneFollowUp ==
    /\ PoolInsertDone =>
          mp.log = Append(InsertCalls, IF mp.network_origin THEN "report_good"
                                       ELSE "broadcast_tx")
    /\ (mp.ev = "insert" /\ ~PoolInsertDone) =>
          Range(mp.log) \cap {"broadcast_tx", "report_good"} = {}

\* a transaction received from a peer has been pooled and the peer reported
C25_Witness ==
    /\ PoolInsertDone
    /\ mp.network_origin
    /\ mp.res = "Ok"
    /\ mp.log[Len(mp.log)] = "report_good"

(***************************************************************************)
(* C26: when broadcast_tx fails after the transaction has been inserted    *)
(* into the pool, insert returns the broadcast error and the transaction   *)
(* stays in the pool.                                                      *)
(***************************************************************************)
C26_BroadcastErrorKeepsTx ==
    (mp.ev = "insert" /\ mp.res = "broadcast_tx") =>
        /\ PriorityPool_contains(ordq, sysq, mp.tx)
        /\ mp.tx \notin mp.before
        /\ mp.log = Append(InsertCalls, "broadcast_tx")

\* an insert has failed in broadcast_tx with its transaction pooled
C26_Witness ==
    /\ mp.ev = "insert"
    /\ mp.res = "broadcast_tx"
    /\ ~mp.network_origin
    /\ PriorityPool_contains(ordq, sysq, mp.tx)

(***************************************************************************)
(* C27: when the ordinary queue holds pool_size transactions, insert fails *)
(* with ReachLimit as its first step, before any adapter check, for an     *)
(* ordinary and for a system-script transaction alike, and the pool is     *)
(* unchanged.                                                              *)
(***************************************************************************)
C27_FullPoolRejectsFirst ==
    (mp.ev = "insert" /\ PriorityPool_len(mp.ordq) = pool_size) =>
        /\ mp.res = "ReachLimit"
        /\ mp.log = <<>>
        /\ ordq = mp.ordq
        /\ sysq = mp.sysq

\* a system-script transaction has been refused by the full pool
C27_Witness ==
    /\ mp.ev = "insert"
    /\ PriorityPool_len(mp.ordq) = pool_size
    /\ is_call_system_script(mp.tx)
    /\ mp.tx \notin mp.before
    /\ mp.res = "ReachLimit"

(***************************************************************************)
(* C31: flush(H) removes every hash of H and runs check_authorization on  *)
(* every other pooled transaction, removing those for which it fails:      *)
(* after the flush no transaction that failed the check is pooled, every   *)
(* transaction outside H that passed it is still pooled, nothing else      *)
(* entered the pool, and flush returns Ok also when checks failed.         *)
(***************************************************************************)
C31_FlushNonceCheck ==
    mp.ev = "flush" =>
        /\ mp.res = "Ok"
        /\ PoolSet(ordq, sysq) = {t \in mp.before : t \notin mp.set /\ t \in mp.ok}

\* of three pooled transactions one was flushed by hash, one failed the
\* authorization check and one stayed
C31_Witness ==
    /\ mp.ev = "flush"
    /\ mp.res = "Ok"
    /\ Cardinality(mp.before) = 3
    /\ Cardinality(mp.set \cap mp.before) = 1
    /\ Cardinality((mp.before \ mp.set) \ mp.ok) = 1
    /\ Cardinality(PoolSet(ordq, sysq)) = 1

(***************************************************************************)
(* C24: package does not change the pool: both queues, and so the set of   *)
(* pooled transactions and len(), are the same before and after a package  *)
(* call, every hash it returned is still pooled, and a pooled transaction  *)
(* leaves the pool only in a flush.                                        *)
(***************************************************************************)
C24_PackageKeepsPool ==
    [][/\ mp'.ev = "package" =>
            /\ ordq' = ordq
            /\ sysq' = sysq
            /\ PriorityPool_len(ordq') = PriorityPool_len(ordq)
            /\ Range(mp'.hashes) \subseteq PoolSet(ordq', sysq')
       /\ (PoolSet(ordq, sysq) \ PoolSet(ordq', sysq') # {}) => mp'.ev = "flush"]_vars

\* a package has returned hashes of both queues, all still pooled
C24_Witness ==
    /\ mp.ev = "package"
    /\ Len(mp.hashes) >= 2
    /\ Range(mp.hashes) \cap Range(sysq) # {}
    /\ Range(mp.hashes) \cap Range(ordq) # {}
    /\ Range(mp.hashes) \subseteq PoolSet(ordq, sysq)

(***************************************************************************)
(*                   MEMPOOL SERVICE, CONCURRENT CALLS                     *)
(***************************************************************************)

\* Each caller runs insert or ensure_order_txs one step at a time; a step
\* ends where the handler awaits the adapter or calls the pool. flush runs
\* beside them in its two parts. mp keeps the history of the latest flush:
\* the pool before it, its hashes, the nonce answers, and the transactions
\* that entered the pool since it began (during: before it finished).
MpProcs == {"p1", "p2"}
ConcTxs == {"o1", "o2", "s1"}
IpIdle == [pc |-> "idle", tx |-> "none", list |-> <<>>]
ProcsIdle == \A p \in MpProcs : ipc[p].pc = "idle"

\* the orders proposed: one hash, two hashes of either type in both orders,
\* and a repeated hash
OrderLists == {<<"o1">>, <<"o2", "s1">>, <<"s1", "o2">>, <<"o1", "o1">>}
\* what pull_txs answers when asked for unknown: the transactions asked for,
\* or one transaction short
PullAnswers(unknown) == {unknown} \cup (IF unknown = <<>> THEN {} ELSE {Tail(unknown)})
MaxConcPoolSize == 2
ConcFlushSets == {{"o1"}, {"o2", "s1"}}
ConcAuthOkSets == {PoolTxs, PoolTxs \ {"o2"}}

\* the pool accepted tx: the flush history notes it
NoteInserted(tx) ==
    IF mp.ev = "none" THEN mp
    ELSE [mp EXCEPT !.inserted = @ \cup {tx},
                    !.during = IF mp.ev = "flushing" THEN @ \cup {tx} ELSE @]

\* insert_tx up to its first await: the reach_limit test
Conc_insert_call(p, tx) ==
    /\ ipc[p].pc = "idle"
    /\ ipc' = [ipc EXCEPT ![p] = IF PriorityPool_reach_limit(ordq, pool_size)
                                 THEN IpIdle
                                 ELSE [IpIdle EXCEPT !.pc = "checks", !.tx = tx]]
    /\ UNCHANGED <<ordq, sysq, pool_size, mp>>

\* the three adapter checks: the first that fails ends the call
Conc_insert_checks(p, a) ==
    /\ ipc[p].pc = "checks"
    /\ ipc' = [ipc EXCEPT ![p] = IF a.auth /\ a.tx /\ a.exist
                                 THEN [@ EXCEPT !.pc = "insert"]
                                 ELSE IpIdle]
    /\ UNCHANGED <<ordq, sysq, pool_size, mp>>

\* the insert into the queue of the transaction's type, then the broadcast or
\* the report, which change nothing here
Conc_insert_pool(p) ==
    /\ ipc[p].pc = "insert"
    /\ LET tx == ipc[p].tx
           r == pool_insert_by_type(ordq, sysq, pool_size, tx, is_call_system_script(tx))
       IN /\ ordq' = r.ordq
          /\ sysq' = r.sysq
          /\ mp' = IF r.res = "Ok" THEN NoteInserted(tx) ELSE mp
    /\ ipc' = [ipc EXCEPT ![p] = IpIdle]
    /\ UNCHANGED pool_size

DupResult(kind, hash) == [kind |-> kind, hash |-> hash]

\* a check that reports the earliest element that occurs again later
check_dup_order_hashes_earliest(order_tx_hashes) ==
    LET rep == {i \in 1..Len(order_tx_hashes) :
                   \E j \in (i + 1)..Len(order_tx_hashes) : order_tx_hashes[j] = order_tx_hashes[i]}
    IN IF rep = {} THEN DupResult("Ok", "none")
       ELSE DupResult("EnsureDup", order_tx_hashes[CHOOSE i \in rep : \A j \in rep : i <= j])

\* the loop of check_dup_order_hashes from element i on, dup_set holding the
\* hashes seen so far
RECURSIVE dup_loop(_, _, _)
dup_loop(order_tx_hashes, i, dup_set) ==
    IF i > Len(order_tx_hashes) THEN DupResult("Ok", "none")
    ELSE IF order_tx_hashes[i] \in dup_set THEN DupResult("EnsureDup", order_tx_hashes[i])
    ELSE dup_loop(order_tx_hashes, i + 1, dup_set \cup {order_tx_hashes[i]})

check_dup_order_hashes(order_tx_hashes) == dup_loop(order_tx_hashes, 1, {})

RECURSIVE show_unknown_txs(_, _, _)
show_unknown_txs(oq, sq, tx_hashes) ==
    IF tx_hashes = <<>> THEN <<>>
    ELSE (IF PriorityPool_contains(oq, sq, Head(tx_hashes)) THEN <<>> ELSE <<Head(tx_hashes)>>)
         \o show_unknown_txs(oq, sq, Tail(tx_hashes))

\* ensure_order_txs up to pull_txs: EnsureDup on a repeated hash, Ok when
\* every hash is pooled
Conc_ensure_call(p, order_tx_hashes) ==
    /\ ipc[p].pc = "idle"
    /\ LET unknown == show_unknown_txs(ordq, sysq, order_tx_hashes)
       IN ipc' = [ipc EXCEPT ![p] =
                     IF check_dup_order_hashes(order_tx_hashes).kind # "Ok" \/ unknown = <<>>
                     THEN IpIdle
                     ELSE [IpIdle EXCEPT !.pc = "pull", !.list = unknown]]
    /\ UNCHANGED <<ordq, sysq, pool_size, mp>>

\* pull_txs answers with an error or with txs of its choosing; EnsureBreak
\* unless there are as many as were asked for. verify_tx_in_parallel then
\* joins the spawned checks and looks only at whether a task failed to join,
\* so the answers of the checks do not stop the call.
Conc_ensure_pull(p, ok, txs) ==
    /\ ipc[p].pc = "pull"
    /\ txs \in PullAnswers(ipc[p].list)
    /\ ipc' = [ipc EXCEPT ![p] = IF ok /\ Len(txs) = Len(ipc[p].list)
                                 THEN [IpIdle EXCEPT !.pc = "order", !.list = txs]
                                 ELSE IpIdle]
    /\ UNCHANGED <<ordq, sysq, pool_size, mp>>

\* the loop over the pulled txs: each goes to the ordinary queue with
\* pool.insert, and the first error ends the call
Conc_ensure_insert(p) ==
    /\ ipc[p].pc = "order"
    /\ LET tx == Head(ipc[p].list)
           r == PriorityPool_insert(ordq, sysq, pool_size, tx)
       IN /\ ordq' = r.ordq
          /\ sysq' = r.sysq
          /\ mp' = IF r.res = "Ok" THEN NoteInserted(tx) ELSE mp
          /\ ipc' = [ipc EXCEPT ![p] = IF r.res = "Ok" /\ Len(ipc[p].list) > 1
                                       THEN [@ EXCEPT !.list = Tail(@)]
                                       ELSE IpIdle]
    /\ UNCHANGED pool_size

\* a flush that empties the pool instead of removing the committed hashes
Conc_flush_clear(tx_hashes, auth_ok) ==
    /\ mp.ev # "flushing"
    /\ ordq' = <<>>
    /\ sysq' = <<>>
    /\ mp' = [MpNone EXCEPT !.ev = "flushing", !.set = tx_hashes, !.ok = auth_ok,
                            !.before = PoolSet(ordq, sysq)]
    /\ UNCHANGED <<pool_size, ipc>>

\* MemPool::flush hands the hashes and the nonce check to the pool, which
\* first removes the committed hashes
Conc_flush(tx_hashes, auth_ok) ==
    /\ mp.ev # "flushing"
    /\ LET r == PriorityPool_flush_remove(ordq, sysq, tx_hashes)
       IN ordq' = r.ordq /\ sysq' = r.sysq
    /\ mp' = [MpNone EXCEPT !.ev = "flushing", !.set = tx_hashes, !.ok = auth_ok,
                            !.before = PoolSet(ordq, sysq)]
    /\ UNCHANGED <<pool_size, ipc>>

\* then the pool runs nonce_check over the survivors, and flush returns
Conc_flush_nonce ==
    /\ mp.ev = "flushing"
    /\ LET r == PriorityPool_flush_nonce(ordq, sysq, mp.ok)
       IN ordq' = r.ordq /\ sysq' = r.sysq
    /\ mp' = [mp EXCEPT !.ev = "flushed"]
    /\ UNCHANGED <<pool_size, ipc>>

InitMempool ==
    /\ vp = VpIdle
    /\ vh = VhIdle
    /\ MemUnused
    /\ AdUnused
    /\ TrieUnused
    /\ ordq = <<>>
    /\ sysq = <<>>
    /\ pool_size \in 1..MaxConcPoolSize
    /\ mp = MpNone
    /\ ipc = [p \in MpProcs |-> IpIdle]

NextMempool ==
    \/ \E p \in MpProcs, tx \in ConcTxs : Conc_insert_call(p, tx) /\ UNCHANGED <<consVars, trieVars, memVars>>
    \/ \E p \in MpProcs, a \in AdapterAnswers :
          Conc_insert_checks(p, a) /\ UNCHANGED <<consVars, trieVars, memVars>>
    \/ \E p \in MpProcs : Conc_insert_pool(p) /\ UNCHANGED <<consVars, trieVars, memVars>>
    \/ \E p \in MpProcs, hs \in OrderLists :
          Conc_ensure_call(p, hs) /\ UNCHANGED <<consVars, trieVars, memVars>>
    \/ \E p \in MpProcs, ok \in BOOLEAN :
          \E txs \in PullAnswers(ipc[p].list) :
             Conc_ensure_pull(p, ok, txs) /\ UNCHANGED <<consVars, trieVars, memVars>>
    \/ \E p \in MpProcs : Conc_ensure_insert(p) /\ UNCHANGED <<consVars, trieVars, memVars>>
    \/ \E H \in ConcFlushSets, A \in ConcAuthOkSets :
          Conc_flush(H, A) /\ UNCHANGED <<consVars, trieVars, memVars>>
    \/ Conc_flush_nonce /\ UNCHANGED <<consVars, trieVars, memVars>>

SpecMempool == InitMempool /\ [][NextMempool]_vars

(***************************************************************************)
(* C4: under any interleaving of concurrent insert, ensure_order_txs and   *)
(* flush calls the ordinary queue never holds more than pool_size          *)
(* transactions.                                                           *)
(***************************************************************************)
C4_OrdinaryQueueBounded == Len(ordq) <= pool_size

\* the queue is full while two callers that both passed the reach_limit test
\* (or the order loop) are about to insert
C4_Witness ==
    /\ Len(ordq) = pool_size
    /\ ipc["p1"].pc = "insert"
    /\ ipc["p2"].pc \in {"insert", "order"}
    /\ ~is_call_system_script(ipc["p1"].tx)

(***************************************************************************)
(* C9: when flush(H) has run beside inserts of hashes not in H and all     *)
(* calls have returned, every transaction pooled before the flush that is  *)
(* not in H and passes the nonce check is still pooled, no hash of H is    *)
(* pooled, and the pool holds exactly the retained old transactions plus   *)
(* the inserted ones that are present.                                     *)
(***************************************************************************)
Retained == {t \in mp.before : t \notin mp.set /\ t \in mp.ok}

C9_FlushBesideInserts ==
    (mp.ev = "flushed" /\ ProcsIdle /\ mp.inserted \cap mp.set = {}) =>
        /\ Retained \subseteq PoolSet(ordq, sysq)
        /\ mp.set \cap PoolSet(ordq, sysq) = {}
        /\ Len(ordq) + Len(sysq)
              = Cardinality(Retained) + Cardinality(mp.inserted \cap PoolSet(ordq, sysq))

\* o1 was flushed out, o2 was kept, and s1 entered the pool between the two
\* parts of the flush and is still there
C9_Witness ==
    /\ mp.ev = "flushed"
    /\ ProcsIdle
    /\ mp.set = {"o1"}
    /\ mp.before = {"o1", "o2"}
    /\ mp.during = {"s1"}
    /\ PoolSet(ordq, sysq) = {"o2", "s1"}

(***************************************************************************)
(*              ENSURE_ORDER_TXS AND GET_FULL_TXS, CALL BY CALL            *)
(***************************************************************************)

\* Each call runs without interleaving and leaves in mp what it was given,
\* what the adapter answered, what it returned and the adapter and pool
\* calls it made; the caller then takes the result (OrderReturn).
MaxOrderLen == 4
MaxStorageLen == 2

OrderInputs == SeqsUpTo(ConcTxs, MaxOrderLen)
PullErr == <<"error">>
StorageErr == <<"error">>

OrderResult(kind, hash, require, response) ==
    [kind |-> kind, hash |-> hash, require |-> require, response |-> response]

OrderOutcome(res, oq, sq, log) == [res |-> res, ordq |-> oq, sysq |-> sq, log |-> log]

\* the loop over the pulled txs: pool.insert of each, the first error returned
RECURSIVE order_insert_loop(_, _, _, _, _)
order_insert_loop(oq, sq, size, txs, log) ==
    IF txs = <<>>
    THEN OrderOutcome(OrderResult("Ok", "none", 0, 0), oq, sq, Append(log, "report_good"))
    ELSE LET r == PriorityPool_insert(oq, sq, size, Head(txs))
         IN IF r.res # "Ok"
            THEN OrderOutcome(OrderResult(r.res, Head(txs), 0, 0), r.ordq, r.sysq,
                              Append(log, "pool_insert"))
            ELSE order_insert_loop(r.ordq, r.sysq, size, Tail(txs), Append(log, "pool_insert"))

\* verify_tx_in_parallel: every pulled tx is checked in a task of its own;
\* try_join_all fails only when a task does not join, and the results of
\* the checks (bad: the txs failing one) are dropped with the joined vector
verify_tx_in_parallel(txs, bad, joined) ==
    IF joined THEN "Ok" ELSE "VerifyBatchTransactions"

\* an ensure_order_txs that inserts what was pulled whatever its number
ensure_order_txs_no_count(oq, sq, size, order_tx_hashes, pull, bad, joined) ==
    LET unknown == show_unknown_txs(oq, sq, order_tx_hashes)
        dup == check_dup_order_hashes(order_tx_hashes)
    IN IF dup.kind # "Ok" THEN OrderOutcome(OrderResult(dup.kind, dup.hash, 0, 0), oq, sq, <<>>)
       ELSE IF unknown = <<>> THEN OrderOutcome(OrderResult("Ok", "none", 0, 0), oq, sq, <<>>)
       ELSE IF pull = PullErr
       THEN OrderOutcome(OrderResult("pull_txs", "none", 0, 0), oq, sq, <<"pull_txs">>)
       ELSE order_insert_loop(oq, sq, size, pull, <<"pull_txs", "verify">>)

\* the whole of ensure_order_txs: pull is what pull_txs answers, bad and
\* joined what happens in verify_tx_in_parallel
ensure_order_txs(oq, sq, size, order_tx_hashes, pull, bad, joined) ==
    LET unknown == show_unknown_txs(oq, sq, order_tx_hashes)
        dup == check_dup_order_hashes(order_tx_hashes)
    IN IF dup.kind # "Ok" THEN OrderOutcome(OrderResult(dup.kind, dup.hash, 0, 0), oq, sq, <<>>)
       ELSE IF unknown = <<>> THEN OrderOutcome(OrderResult("Ok", "none", 0, 0), oq, sq, <<>>)
       ELSE IF pull = PullErr
       THEN OrderOutcome(OrderResult("pull_txs", "none", 0, 0), oq, sq, <<"pull_txs">>)
       ELSE IF Len(pull) # Len(unknown)
       THEN OrderOutcome(OrderResult("EnsureBreak", "none", Len(unknown), Len(pull)),
                         oq, sq, <<"pull_txs">>)
       ELSE IF verify_tx_in_parallel(pull, bad, joined) # "Ok"
       THEN OrderOutcome(OrderResult("VerifyBatchTransactions", "none", 0, 0), oq, sq,
                         <<"pull_txs", "verify">>)
       ELSE order_insert_loop(oq, sq, size, pull, <<"pull_txs", "verify">>)

\* the answers tried for one order: none where the adapter is not asked
PullAsked(order_tx_hashes) ==
    /\ check_dup_order_hashes(order_tx_hashes).kind = "Ok"
    /\ show_unknown_txs(ordq, sysq, order_tx_hashes) # <<>>

\* an error, every list of as many txs as asked for, and one list of each
\* other length up to one more
PullInputs(order_tx_hashes) ==
    LET n == Len(show_unknown_txs(ordq, sysq, order_tx_hashes))
    IN IF ~PullAsked(order_tx_hashes) THEN {<<>>}
       ELSE {PullErr} \cup [1..n -> ConcTxs]
            \cup {[i \in 1..k |-> "o1"] : k \in (0..(n + 1)) \ {n}}

Verified(order_tx_hashes, pull) ==
    /\ PullAsked(order_tx_hashes)
    /\ pull # PullErr
    /\ Len(pull) = Len(show_unknown_txs(ordq, sysq, order_tx_hashes))

BadInputs(order_tx_hashes, pull) ==
    IF Verified(order_tx_hashes, pull) THEN {{}} \cup {{t} : t \in Range(pull)} ELSE {{}}

JoinInputs(order_tx_hashes, pull) ==
    IF Verified(order_tx_hashes, pull) THEN BOOLEAN ELSE {TRUE}

OeNone == [ev |-> "none"]

MemPoolImpl_ensure_order_txs(order_tx_hashes, pull, bad, joined) ==
    LET r == ensure_order_txs(ordq, sysq, pool_size, order_tx_hashes, pull, bad, joined)
    IN /\ ordq' = r.ordq
       /\ sysq' = r.sysq
       /\ mp' = [ev |-> "ensure_order_txs", order |-> order_tx_hashes,
                 unknown |-> show_unknown_txs(ordq, sysq, order_tx_hashes),
                 pull |-> pull, bad |-> bad, joined |-> joined,
                 res |-> r.res, log |-> r.log, ordq |-> ordq, sysq |-> sysq]
       /\ UNCHANGED <<pool_size, ipc>>

\* PriorityPool::get_by_hash, over a list: the hashes the pool holds
RECURSIVE pool_found(_, _, _)
pool_found(oq, sq, tx_hashes) ==
    IF tx_hashes = <<>> THEN <<>>
    ELSE (IF PriorityPool_contains(oq, sq, Head(tx_hashes)) THEN <<Head(tx_hashes)>> ELSE <<>>)
         \o pool_found(oq, sq, Tail(tx_hashes))

\* into_iter().flatten() over the Vec<Option<SignedTransaction>> of the storage
RECURSIVE flatten(_)
flatten(opts) ==
    IF opts = <<>> THEN <<>>
    ELSE (IF Head(opts) = "None" THEN <<>> ELSE <<Head(opts)>>) \o flatten(Tail(opts))

FullOutcome(res, full, asked, log) == [res |-> res, full |-> full, asked |-> asked, log |-> log]

\* a get_full_txs that returns what it has whatever the count
get_full_txs_no_count(oq, sq, tx_hashes, storage) ==
    LET missing_hashes == show_unknown_txs(oq, sq, tx_hashes)
        found == pool_found(oq, sq, tx_hashes)
    IN IF missing_hashes = <<>>
       THEN FullOutcome(OrderResult("Ok", "none", 0, 0), found, <<>>, <<>>)
       ELSE IF storage = StorageErr
       THEN FullOutcome(OrderResult("get_transactions_from_storage", "none", 0, 0), <<>>,
                        missing_hashes, <<"get_transactions_from_storage">>)
       ELSE FullOutcome(OrderResult("Ok", "none", 0, 0), found \o flatten(storage),
                        missing_hashes, <<"get_transactions_from_storage">>)

\* the whole of get_full_txs: storage is what get_transactions_from_storage
\* answers when it is asked
get_full_txs(oq, sq, tx_hashes, storage) ==
    LET len == Len(tx_hashes)
        missing_hashes == show_unknown_txs(oq, sq, tx_hashes)
        found == pool_found(oq, sq, tx_hashes)
        called == missing_hashes # <<>>
        log == IF called THEN <<"get_transactions_from_storage">> ELSE <<>>
        full_txs == IF called THEN found \o flatten(storage) ELSE found
    IN IF called /\ storage = StorageErr
       THEN FullOutcome(OrderResult("get_transactions_from_storage", "none", 0, 0), <<>>,
                        missing_hashes, log)
       ELSE IF Len(full_txs) # len
       THEN FullOutcome(OrderResult("MisMatch", "none", len, Len(full_txs)), <<>>,
                        missing_hashes, log)
       ELSE FullOutcome(OrderResult("Ok", "none", 0, 0), full_txs, missing_hashes, log)

FullInputs == SeqsUpTo(ConcTxs, MaxStorageLen)

StorageInputs(tx_hashes) ==
    IF show_unknown_txs(ordq, sysq, tx_hashes) = <<>> THEN {<<>>}
    ELSE {StorageErr} \cup SeqsUpTo({"o1", "s1", "None"}, MaxStorageLen + 1)

MemPoolImpl_get_full_txs(tx_hashes, storage) ==
    LET r == get_full_txs(ordq, sysq, tx_hashes, storage)
    IN /\ mp' = [ev |-> "get_full_txs", hashes |-> tx_hashes, storage |-> storage,
                 found |-> pool_found(ordq, sysq, tx_hashes),
                 res |-> r.res, full |-> r.full, asked |-> r.asked, log |-> r.log,
                 ordq |-> ordq, sysq |-> sysq]
       /\ UNCHANGED <<ordq, sysq, pool_size, ipc>>

\* initial_insert: check_storage_exist, then pool.insert; exist_fail is the set
\* of transactions for which check_storage_exist fails
initial_insert(oq, sq, size, stx, exist_fail) ==
    IF stx \in exist_fail THEN [res |-> "check_storage_exist", ordq |-> oq, sysq |-> sq]
    ELSE PriorityPool_insert(oq, sq, size, stx)

\* MemPoolImpl::new: an empty pool, then initial_insert of every initial
\* transaction, an error of which is logged and passed over
RECURSIVE new_loop(_, _, _, _, _)
new_loop(oq, sq, size, initial_txs, exist_fail) ==
    IF initial_txs = <<>> THEN [ordq |-> oq, sysq |-> sq]
    ELSE LET r == initial_insert(oq, sq, size, Head(initial_txs), exist_fail)
         IN new_loop(r.ordq, r.sysq, size, Tail(initial_txs), exist_fail)

MemPoolImpl_new(size, initial_txs, exist_fail) == new_loop(<<>>, <<>>, size, initial_txs, exist_fail)

\* the constructions tried: up to MaxInitialTxs transactions, of which o1 may
\* be one that check_authorization or check_transaction refuses (bad) and o2
\* one that check_storage_exist refuses
MaxInitialTxs == 2
InitialTxs == SeqsUpTo({"o1", "o2"}, MaxInitialTxs)

\* the caller takes the result of the call just made
OrderReturn ==
    /\ mp.ev # "none"
    /\ mp' = OeNone
    /\ UNCHANGED <<ordq, sysq, pool_size, ipc>>

InitOrder ==
    /\ vp = VpIdle
    /\ vh = VhIdle
    /\ MemUnused
    /\ AdUnused
    /\ TrieUnused
    /\ pool_size \in 1..MaxPoolSize
    /\ \E initial_txs \in InitialTxs, bad \in {{}, {"o1"}}, exist_fail \in {{}, {"o2"}} :
          LET r == MemPoolImpl_new(pool_size, initial_txs, exist_fail)
          IN /\ ordq = r.ordq
             /\ sysq = r.sysq
             /\ mp = [ev |-> "new", initial_txs |-> initial_txs, bad |-> bad,
                      exist_fail |-> exist_fail, ordq |-> <<>>, sysq |-> <<>>]
    /\ ipc = <<>>

NextOrder ==
    \/ /\ mp.ev = "none"
       /\ \E tx \in ConcTxs, a \in AdapterAnswers : MemPoolImpl_insert(tx, a)
       /\ UNCHANGED <<consVars, trieVars, memVars>>
    \/ /\ mp.ev = "none"
       /\ \E H \in ConcFlushSets, A \in ConcAuthOkSets : MemPoolImpl_flush(H, A)
       /\ UNCHANGED <<consVars, trieVars, memVars>>
    \/ /\ mp.ev = "none"
       /\ \E order \in OrderInputs :
             \E pull \in PullInputs(order) :
                \E bad \in BadInputs(order, pull), joined \in JoinInputs(order, pull) :
                   MemPoolImpl_ensure_order_txs(order, pull, bad, joined)
       /\ UNCHANGED <<consVars, trieVars, memVars>>
    \/ /\ mp.ev = "none"
       /\ \E hs \in FullInputs :
             \E storage \in StorageInputs(hs) : MemPoolImpl_get_full_txs(hs, storage)
       /\ UNCHANGED <<consVars, trieVars, memVars>>
    \/ OrderReturn /\ UNCHANGED <<consVars, trieVars, memVars>>

SpecOrder == InitOrder /\ [][NextOrder]_vars

(***************************************************************************)
(* C14: check_dup_order_hashes returns Ok exactly when the hashes are      *)
(* pairwise distinct, and otherwise EnsureDup(h) for the first element, in *)
(* list order, that equals an earlier one; ensure_order_txs runs it first, *)
(* so on a repeated hash it fails with EnsureDup before pull_txs is called *)
(* and leaves the pool unchanged.                                          *)
(***************************************************************************)
PairwiseDistinct(list) == \A i, j \in 1..Len(list) : list[i] = list[j] => i = j

\* the first position whose element occurred before
FirstRepeat(list) ==
    CHOOSE i \in 1..Len(list) :
        /\ \E j \in 1..(i - 1) : list[j] = list[i]
        /\ \A k \in 1..(i - 1) : \A j \in 1..(k - 1) : list[j] # list[k]

C14_DupOrderRejected ==
    mp.ev = "ensure_order_txs" =>
        /\ (check_dup_order_hashes(mp.order).kind = "Ok" <=> PairwiseDistinct(mp.order))
        /\ (~PairwiseDistinct(mp.order) =>
               /\ check_dup_order_hashes(mp.order)
                     = DupResult("EnsureDup", mp.order[FirstRepeat(mp.order)])
               /\ mp.res = OrderResult("EnsureDup", mp.order[FirstRepeat(mp.order)], 0, 0)
               /\ mp.log = <<>>
               /\ ordq = mp.ordq
               /\ sysq = mp.sysq)

\* o1, o2, o2, o1 with o2 unknown to the pool: EnsureDup(o2), not o1
C14_Witness ==
    /\ mp.ev = "ensure_order_txs"
    /\ mp.order = <<"o1", "o2", "o2", "o1">>
    /\ mp.unknown # <<>>
    /\ mp.res.kind = "EnsureDup"
    /\ mp.res.hash = "o2"

\* the call got as far as pull_txs
OePulled ==
    /\ mp.ev = "ensure_order_txs"
    /\ PairwiseDistinct(mp.order)
    /\ mp.unknown # <<>>
    /\ mp.pull # PullErr

OePoolUnchanged == ordq = mp.ordq /\ sysq = mp.sysq

(***************************************************************************)
(* C15: whenever ensure_order_txs(order_tx_hashes) returns Ok, every hash  *)
(* of order_tx_hashes is in the pool, and a get_full_txs on the same       *)
(* hashes returns that many transactions without asking the storage,       *)
(* whatever list pull_txs returned.                                        *)
(***************************************************************************)
C15_OrderedHashesPooled ==
    (mp.ev = "ensure_order_txs" /\ mp.res.kind = "Ok") =>
        /\ \A i \in 1..Len(mp.order) : PriorityPool_contains(ordq, sysq, mp.order[i])
        /\ LET g == get_full_txs(ordq, sysq, mp.order, StorageErr)
           IN /\ g.res.kind = "Ok"
              /\ Len(g.full) = Len(mp.order)
              /\ g.log = <<>>

\* the same when pull_txs returns the transactions it was asked for
C15_PooledWhenPulledAsAsked ==
    (mp.ev = "ensure_order_txs" /\ mp.res.kind = "Ok"
        /\ Range(mp.pull) = Range(mp.unknown)) =>
        /\ \A i \in 1..Len(mp.order) : PriorityPool_contains(ordq, sysq, mp.order[i])
        /\ LET g == get_full_txs(ordq, sysq, mp.order, StorageErr)
           IN /\ g.res.kind = "Ok"
              /\ Len(g.full) = Len(mp.order)
              /\ g.log = <<>>

(***************************************************************************)
(* C16: when pull_txs returns a number of transactions other than the      *)
(* number of unknown hashes, ensure_order_txs fails with                   *)
(* EnsureBreak{require = unknown, response = returned}; nothing is         *)
(* verified or inserted, the pool is unchanged, no peer is reported good.  *)
(***************************************************************************)
C16_EnsureBreak ==
    (OePulled /\ Len(mp.pull) # Len(mp.unknown)) =>
        /\ mp.res = OrderResult("EnsureBreak", "none", Len(mp.unknown), Len(mp.pull))
        /\ mp.log = <<"pull_txs">>
        /\ OePoolUnchanged

\* two hashes are unknown, three transactions come back, the pool holds one
C16_Witness ==
    /\ OePulled
    /\ Len(mp.unknown) = 2
    /\ Len(mp.pull) = 3
    /\ Len(mp.order) = 3
    /\ mp.res.kind = "EnsureBreak"
    /\ ordq # <<>>

(***************************************************************************)
(* C17: when a pulled transaction fails check_authorization,               *)
(* check_transaction or check_storage_exist, ensure_order_txs fails with   *)
(* VerifyBatchTransactions and inserts none of the pulled transactions.    *)
(***************************************************************************)
C17_FailedCheckRejectsBatch ==
    (OePulled /\ Len(mp.pull) = Len(mp.unknown) /\ mp.bad # {}) =>
        /\ mp.res.kind = "VerifyBatchTransactions"
        /\ OePoolUnchanged

(***************************************************************************)
(* C18: get_full_txs returns Ok only with exactly hashes.len()             *)
(* transactions; pooled hashes are served from the pool, only the missing  *)
(* ones are asked of the storage (which is not called when none is         *)
(* missing), a combined count other than hashes.len() fails with           *)
(* MisMatch{require = hashes.len(), response = count}, and the pool is     *)
(* never modified.                                                         *)
(***************************************************************************)
SomeCount(storage) == Cardinality({i \in 1..Len(storage) : storage[i] # "None"})

C18_FullTxsCount ==
    mp.ev = "get_full_txs" =>
        LET missing == {i \in 1..Len(mp.hashes) :
                           ~PriorityPool_contains(mp.ordq, mp.sysq, mp.hashes[i])}
            count == (Len(mp.hashes) - Cardinality(missing))
                        + (IF missing = {} THEN 0 ELSE SomeCount(mp.storage))
        IN /\ OePoolUnchanged
           /\ (missing = {} <=> mp.log = <<>>)
           /\ Len(mp.asked) = Cardinality(missing)
           /\ \A i \in 1..Len(mp.asked) :
                 ~PriorityPool_contains(mp.ordq, mp.sysq, mp.asked[i])
           /\ (mp.res.kind = "Ok" =>
                  /\ Len(mp.full) = Len(mp.hashes)
                  /\ SubSeq(mp.full, 1, Len(mp.found)) = mp.found
                  /\ \A i \in 1..Len(mp.found) :
                        PriorityPool_contains(mp.ordq, mp.sysq, mp.found[i]))
           /\ ((mp.storage # StorageErr \/ missing = {}) =>
                  IF count = Len(mp.hashes) THEN mp.res.kind = "Ok"
                  ELSE mp.res = OrderResult("MisMatch", "none", Len(mp.hashes), count))

\* one of two hashes is pooled and the storage answers with two transactions
C18_Witness ==
    /\ mp.ev = "get_full_txs"
    /\ Len(mp.hashes) = 2
    /\ Len(mp.found) = 1
    /\ mp.storage # StorageErr
    /\ SomeCount(mp.storage) = 2
    /\ mp.res = OrderResult("MisMatch", "none", 2, 3)

(***************************************************************************)
(*          CONSENSUS ADAPTER: ENGINE HANDLE AND STORAGE READS             *)
(***************************************************************************)

Handlers == {"h1", "h2"}
MaxSent == 2
StoredTxs == {"t1", "t2"}
MaxHashes == 2

AdRunning == ad.ret # "panic"

\* set_overlord_handler: the slot is assigned under the write guard
set_overlord_handler(handler) ==
    /\ AdRunning
    /\ overlord_handler' = handler
    /\ ad' = [AdNone EXCEPT !.op = "set_overlord_handler", !.ret = "Ok", !.handler = handler]
    /\ UNCHANGED engine

\* gen_overlord_status(number + 1, ..) wrapped in OverlordMsg::RichStatus
RichStatus(to, height) == [to |-> to, kind |-> "RichStatus", height |-> height]

\* an update_status that announces the height it was given
update_status_same_height(number, send_ok) ==
    /\ AdRunning
    /\ IF overlord_handler = "None"
       THEN /\ ad' = [AdNone EXCEPT !.op = "update_status", !.ret = "panic",
                                    !.number = number, !.send_ok = send_ok]
            /\ UNCHANGED engine
       ELSE /\ ad' = [AdNone EXCEPT !.op = "update_status",
                                    !.ret = IF send_ok THEN "Ok" ELSE "OverlordErr",
                                    !.number = number, !.send_ok = send_ok]
            /\ engine' = (IF send_ok THEN Append(engine, RichStatus(overlord_handler, number))
                          ELSE engine)
    /\ UNCHANGED overlord_handler

\* update_status: expect() panics on an empty slot; send_ok is whether
\* send_msg succeeds
update_status(number, send_ok) ==
    /\ AdRunning
    /\ IF overlord_handler = "None"
       THEN /\ ad' = [AdNone EXCEPT !.op = "update_status", !.ret = "panic",
                                    !.number = number, !.send_ok = send_ok]
            /\ UNCHANGED engine
       ELSE /\ ad' = [AdNone EXCEPT !.op = "update_status",
                                    !.ret = IF send_ok THEN "Ok" ELSE "OverlordErr",
                                    !.number = number, !.send_ok = send_ok]
            /\ engine' = (IF send_ok
                          THEN Append(engine, RichStatus(overlord_handler, number + 1))
                          ELSE engine)
    /\ UNCHANGED overlord_handler

\* what the storage answers for one item: an error, no item, or the item
ItemAnswers == {"error", "None", "item"}
TxAnswers == {"error", "None"} \cup StoredTxs

AdResult(kind, txs) == [kind |-> kind, txs |-> txs]

\* get_block_by_number and get_block_header_by_number: .await? then ok_or_else
get_block_by_number(answer) ==
    IF answer = "error" THEN AdResult("StorageError", <<>>)
    ELSE IF answer = "None" THEN AdResult("StorageItemNotFound", <<>>)
    ELSE AdResult("Ok", <<answer>>)

get_block_header_by_number(answer) ==
    IF answer = "error" THEN AdResult("StorageError", <<>>)
    ELSE IF answer = "None" THEN AdResult("StorageItemNotFound", <<>>)
    ELSE AdResult("Ok", <<answer>>)

\* get_txs_from_storage: try_join_all over get_transaction_by_hash, then
\* into_iter().flatten() over the options
get_txs_from_storage(answers) ==
    IF \E i \in 1..Len(answers) : answers[i] = "error"
    THEN AdResult("StorageError", <<>>)
    ELSE AdResult("Ok", flatten(answers))

AdRead(op, number, answers, r) ==
    /\ AdRunning
    /\ ad' = [AdNone EXCEPT !.op = op, !.ret = r.kind, !.number = number,
                            !.answers = answers, !.txs = r.txs]
    /\ UNCHANGED <<overlord_handler, engine>>

InitAdapter ==
    /\ vp = VpIdle
    /\ vh = VhIdle
    /\ MemUnused
    /\ AdUnused
    /\ TrieUnused
    /\ PoolUnused

NextAdapter ==
    \/ \E h \in Handlers :
          set_overlord_handler(h) /\ UNCHANGED <<vp, vh, trieVars, poolVars, memVars>>
    \/ \E number \in 0..MaxNumber, send_ok \in BOOLEAN :
          /\ Len(engine) < MaxSent
          /\ update_status(number, send_ok)
          /\ UNCHANGED <<vp, vh, trieVars, poolVars, memVars>>
    \/ \E number \in 0..MaxNumber, answer \in ItemAnswers :
          /\ AdRead("get_block_by_number", number, <<answer>>, get_block_by_number(answer))
          /\ UNCHANGED <<vp, vh, trieVars, poolVars, memVars>>
    \/ \E number \in 0..MaxNumber, answer \in ItemAnswers :
          /\ AdRead("get_block_header_by_number", number, <<answer>>,
                    get_block_header_by_number(answer))
          /\ UNCHANGED <<vp, vh, trieVars, poolVars, memVars>>
    \/ \E answers \in SeqsUpTo(TxAnswers, MaxHashes) :
          /\ AdRead("get_txs_from_storage", 0, answers, get_txs_from_storage(answers))
          /\ UNCHANGED <<vp, vh, trieVars, poolVars, memVars>>

SpecAdapter == InitAdapter /\ [][NextAdapter]_vars

(***************************************************************************)
(* C28: the engine handle is None after construction, and once             *)
(* set_overlord_handler has stored a handle no later operation, another    *)
(* set_overlord_handler included, replaces or clears it.                   *)
(***************************************************************************)
C28_HandleWriteOnce ==
    /\ (ad = AdNone => overlord_handler = "None")
    /\ [][overlord_handler # "None" => overlord_handler' = overlord_handler]_vars

\* the handle stays once set, but for a later set_overlord_handler
C28_HandleKeptByOtherCalls ==
    [][(overlord_handler # "None" /\ ad'.op # "set_overlord_handler")
           => overlord_handler' = overlord_handler]_vars

(***************************************************************************)
(* C29: update_status called before set_overlord_handler panics and sends  *)
(* nothing; called after the handle is set it sends exactly one RichStatus *)
(* message for height number + 1 to the engine, and when the send fails it *)
(* returns OverlordErr.                                                    *)
(***************************************************************************)
C29_UpdateStatus ==
    [][ad'.op = "update_status" =>
         IF overlord_handler = "None"
         THEN ad'.ret = "panic" /\ engine' = engine
         ELSE IF ad'.send_ok
         THEN /\ ad'.ret = "Ok"
              /\ engine' = Append(engine, RichStatus(overlord_handler, ad'.number + 1))
         ELSE /\ ad'.ret = "OverlordErr"
              /\ engine' = engine]_vars

\* the engine has received the status of height 2 after update_status(1)
C29_Witness ==
    /\ ad.op = "update_status"
    /\ ad.ret = "Ok"
    /\ ad.number = 1
    /\ engine # <<>>
    /\ engine[Len(engine)] = RichStatus(overlord_handler, 2)

(***************************************************************************)
(* C30: get_block_by_number and get_block_header_by_number fail with       *)
(* StorageItemNotFound when the storage has no item for the number, and    *)
(* get_txs_from_storage fails with StorageItemNotFound when a requested    *)
(* hash has no stored transaction: it never returns Ok with fewer          *)
(* transactions than hashes.                                               *)
(***************************************************************************)
NoStorageError == \A i \in 1..Len(ad.answers) : ad.answers[i] # "error"
SomeMissing == \E i \in 1..Len(ad.answers) : ad.answers[i] = "None"

C30_MissingItemNotFound ==
    /\ (ad.op \in {"get_block_by_number", "get_block_header_by_number"}
            /\ NoStorageError /\ SomeMissing) => ad.ret = "StorageItemNotFound"
    /\ (ad.op = "get_txs_from_storage" /\ NoStorageError /\ SomeMissing)
            => ad.ret = "StorageItemNotFound"
    /\ (ad.op = "get_txs_from_storage" /\ ad.ret = "Ok")
            => Len(ad.txs) = Len(ad.answers)

\* the two single-item reads do report a missing item
C30_SingleReadsNotFound ==
    (ad.op \in {"get_block_by_number", "get_block_header_by_number"}
        /\ NoStorageError /\ SomeMissing) => ad.ret = "StorageItemNotFound"

(***************************************************************************)
(* C34: each transaction in the pool was admitted only after               *)
(* check_authorization, check_transaction and check_storage_exist had all  *)
(* succeeded for it, whichever path admitted it: insert, ensure_order_txs  *)
(* or the initial_txs given at construction.                               *)
(***************************************************************************)
Admitted == PoolSet(ordq, sysq) \ PoolSet(mp.ordq, mp.sysq)

C34_AdmittedAfterChecks ==
    /\ mp.ev = "insert" => (Admitted # {} => SubSeq(mp.log, 1, 4) = InsertCalls)
    /\ mp.ev = "ensure_order_txs" => Admitted \cap mp.bad = {}
    /\ mp.ev = "new" => Admitted \cap (mp.bad \cup mp.exist_fail) = {}

\* the same for the admissions of insert alone
C34_InsertAdmitsAfterChecks ==
    mp.ev = "insert" => (Admitted # {} => SubSeq(mp.log, 1, 4) = InsertCalls)

(***************************************************************************)
(* C35: ensure_order_txs is all-or-nothing with respect to the pool:       *)
(* whenever it returns an error (EnsureDup, EnsureBreak,                   *)
(* VerifyBatchTransactions, an error of pull_txs, or Dup or ReachLimit     *)
(* from inserting a pulled transaction) the pool holds no pulled           *)
(* transaction that was not in it before the call.                         *)
(***************************************************************************)
C35_EnsureAllOrNothing ==
    (mp.ev = "ensure_order_txs" /\ mp.res.kind # "Ok") =>
        PoolSet(ordq, sysq) \subseteq PoolSet(mp.ordq, mp.sysq)

\* the errors raised before the insert loop leave the pool as it was
C35_EarlyErrorKeepsPool ==
    (mp.ev = "ensure_order_txs" /\ mp.res.kind \notin {"Ok", "Dup", "ReachLimit"}) =>
        /\ ordq = mp.ordq
        /\ sysq = mp.sysq

(***************************************************************************)
(* C36: ensure_order_txs succeeds whenever every ordered hash is in the    *)
(* pool or is returned by pull_txs and verified, under any interleaving    *)
(* with concurrent insert calls or a second ensure_order_txs for the same  *)
(* hashes: a transaction that enters the pool between the determination    *)
(* of the unknown hashes and the insertion of the pulled transactions does *)
(* not make the call fail.  A call that succeeds leaves every pulled       *)
(* transaction in the pool; the ordinary queue has room in the step        *)
(* looked at, so ReachLimit is not the cause of a failure.                 *)
(***************************************************************************)
\* the step in which the insert loop of p's ensure_order_txs returns
ConcEnsureReturns(p) == ipc[p].pc = "order" /\ ipc'[p].pc = "idle"

C36_ConcurrentEntryKeepsSuccess ==
    [][\A p \in MpProcs :
          (ConcEnsureReturns(p) /\ ~PriorityPool_reach_limit(ordq, pool_size)) =>
              \A i \in 1..Len(ipc[p].list) :
                 PriorityPool_contains(ordq', sysq', ipc[p].list[i])]_vars

\* a pulled transaction that nobody inserted meanwhile goes into the pool
C36_UndisturbedInsert ==
    [][\A p \in MpProcs :
          (/\ ipc[p].pc = "order"
           /\ ipc'[p] # ipc[p]
           /\ ~PriorityPool_contains(ordq, sysq, Head(ipc[p].list))
           /\ ~PriorityPool_reach_limit(ordq, pool_size)) =>
              /\ PriorityPool_contains(ordq', sysq', Head(ipc[p].list))
              /\ (Len(ipc[p].list) > 1 => ipc'[p].pc = "order")]_vars

(***************************************************************************)
(* C37: on success get_full_txs returns the transactions in the order of   *)
(* the requested hashes (the i-th returned transaction has hash            *)
(* hashes[i]), also when some come from the pool and the others from the   *)
(* storage.  The storage answers with the transaction of every hash it is  *)
(* asked for, in the order asked.                                          *)
(***************************************************************************)
StorageAnswersAsAsked == mp.asked # <<>> => mp.storage = mp.asked

C37_FullTxsInRequestOrder ==
    (mp.ev = "get_full_txs" /\ mp.res.kind = "Ok" /\ StorageAnswersAsAsked) =>
        mp.full = mp.hashes

\* the order is that of the request when one source serves every hash
C37_SingleSourceInRequestOrder ==
    (/\ mp.ev = "get_full_txs"
     /\ mp.res.kind = "Ok"
     /\ StorageAnswersAsAsked
     /\ (mp.asked = <<>> \/ mp.found = <<>>)) =>
        mp.full = mp.hashes

(***************************************************************************)
(*                 MEMORY STORAGE ADAPTER: BATCH MODIFY                    *)
(*                                                                         *)
(* MemoryAdapter keeps HashMap<String, Category> behind one RwLock; the    *)
(* calls of one schema work on one category, which is what memory_db       *)
(* holds.  get, contains and the second half of batch_modify each run      *)
(* while holding the write lock, so each is one step; batch_modify         *)
(* encodes its arguments before it takes the lock, and other calls may     *)
(* run in between.                                                         *)
(***************************************************************************)
MemKeys == {"k1", "k2"}
MemVals == {"v1", "v2"}
Remove == "Remove"
MemMods == MemVals \cup {Remove}
MaxMemBatch == 2

\* ProtocolCodec: encode gives the bytes of a key or value, or fails for the
\* items in bad; decode reads them back
encode(x, bad) == IF x \in bad THEN "Codec" ELSE <<x>>
decode(bytes) == bytes[1]

MemEmpty == [k \in {encode(x, {}) : x \in MemKeys} |-> NoVal]
MemPair(key, value) == [key |-> key, value |-> value]
MemEvent(op, key, keys, vals, ret, before) ==
    [op |-> op, key |-> key, keys |-> keys, vals |-> vals, ret |-> ret, before |-> before]
MaNone == MemEvent("none", "none", <<>>, <<>>, "none", MemEmpty)
BmIdle == [pc |-> "idle", keys |-> <<>>, vals |-> <<>>, pairs |-> <<>>]

\* the loop of batch_modify over keys zipped with vals: key.encode()?, then
\* value.encode()? of an Insert, None for a Remove
RECURSIVE batch_modify_pairs(_, _, _)
batch_modify_pairs(keys, vals, bad) ==
    IF keys = <<>> THEN [res |-> "Ok", pairs |-> <<>>]
    ELSE IF encode(Head(keys), bad) = "Codec" THEN [res |-> "Codec", pairs |-> <<>>]
    ELSE IF Head(vals) # Remove /\ encode(Head(vals), bad) = "Codec"
    THEN [res |-> "Codec", pairs |-> <<>>]
    ELSE LET rest == batch_modify_pairs(Tail(keys), Tail(vals), bad)
             value == IF Head(vals) = Remove THEN "None" ELSE encode(Head(vals), bad)
         IN IF rest.res # "Ok" THEN rest
            ELSE [res |-> "Ok", pairs |-> <<MemPair(encode(Head(keys), bad), value)>> \o rest.pairs]

\* batch_modify up to the write lock: the length test, then the encoding
batch_modify_encode(keys, vals, bad) ==
    IF Len(keys) # Len(vals) THEN [res |-> "BatchLengthMismatch", pairs |-> <<>>]
    ELSE batch_modify_pairs(keys, vals, bad)

\* the loop over pairs under the lock: db.insert for Some, db.remove for None
RECURSIVE batch_modify_apply(_, _)
batch_modify_apply(mdb, pairs) ==
    IF pairs = <<>> THEN mdb
    ELSE LET p == Head(pairs)
         IN batch_modify_apply([mdb EXCEPT ![p.key] = IF p.value = "None" THEN NoVal ELSE p.value],
                               Tail(pairs))

\* a batch_modify that takes the lock anew for every pair
batch_modify_lock_per_pair(mdb, pairs) ==
    IF pairs = <<>> THEN [db |-> mdb, rest |-> <<>>]
    ELSE [db |-> batch_modify_apply(mdb, <<Head(pairs)>>), rest |-> Tail(pairs)]

\* what batch_modify does while it holds the write lock: every pair, in order
batch_modify_locked(mdb, pairs) ==
    [db |-> batch_modify_apply(mdb, pairs), rest |-> <<>>]

\* batch_modify(keys, vals) up to self.db.write(): an error returns here.
\* A call starts once the result of the step before it has been taken.
MemoryAdapter_batch_modify_call(keys, vals, bad) ==
    /\ bm.pc = "idle"
    /\ ma.op = "none"
    /\ LET r == batch_modify_encode(keys, vals, bad)
       IN IF r.res # "Ok"
          THEN /\ ma' = MemEvent("batch_modify", "none", keys, vals, r.res, memory_db)
               /\ bm' = BmIdle
          ELSE /\ ma' = MemEvent("batch_modify", "none", keys, vals, "pending", memory_db)
               /\ bm' = [pc |-> "write", keys |-> keys, vals |-> vals, pairs |-> r.pairs]
    /\ UNCHANGED memory_db

\* batch_modify from self.db.write() to its return
MemoryAdapter_batch_modify_write ==
    /\ bm.pc = "write"
    /\ LET r == batch_modify_locked(memory_db, bm.pairs)
       IN /\ memory_db' = r.db
          /\ bm' = IF r.rest = <<>> THEN BmIdle ELSE [bm EXCEPT !.pairs = r.rest]
          /\ ma' = MemEvent("batch_modify", "none", bm.keys, bm.vals,
                            IF r.rest = <<>> THEN "Ok" ELSE "pending", memory_db)

\* get(key): the bytes stored under the encoded key, decoded
MemoryAdapter_get(key, bad) ==
    /\ ma' = MemEvent("get", key, <<>>, <<>>,
                      IF encode(key, bad) = "Codec" THEN "Codec"
                      ELSE IF memory_db[encode(key, bad)] = NoVal THEN "None"
                      ELSE decode(memory_db[encode(key, bad)]),
                      memory_db)
    /\ UNCHANGED <<memory_db, bm>>

\* contains(key)
MemoryAdapter_contains(key, bad) ==
    /\ ma' = MemEvent("contains", key, <<>>, <<>>,
                      IF encode(key, bad) = "Codec" THEN "Codec"
                      ELSE IF memory_db[encode(key, bad)] # NoVal THEN "true" ELSE "false",
                      memory_db)
    /\ UNCHANGED <<memory_db, bm>>

\* the caller takes the result of the step just made
MemoryReturn ==
    /\ ma.op # "none"
    /\ ma' = MaNone
    /\ UNCHANGED <<memory_db, bm>>

\* the items whose encoding fails in a call
BadItems == {{}, {"k2"}, {"v2"}}

\* MemoryAdapter::new: an empty map
InitMemory ==
    /\ vp = VpIdle
    /\ vh = VhIdle
    /\ AdUnused
    /\ TrieUnused
    /\ PoolUnused
    /\ memory_db = MemEmpty
    /\ ma = MaNone
    /\ bm = BmIdle

NextMemory ==
    \/ /\ \E keys \in SeqsUpTo(MemKeys, MaxMemBatch), vals \in SeqsUpTo(MemMods, MaxMemBatch),
             bad \in BadItems : MemoryAdapter_batch_modify_call(keys, vals, bad)
       /\ UNCHANGED <<consVars, trieVars, poolVars>>
    \/ MemoryAdapter_batch_modify_write /\ UNCHANGED <<consVars, trieVars, poolVars>>
    \/ /\ \E key \in MemKeys, bad \in BadItems : MemoryAdapter_get(key, bad)
       /\ UNCHANGED <<consVars, trieVars, poolVars>>
    \/ /\ \E key \in MemKeys, bad \in BadItems : MemoryAdapter_contains(key, bad)
       /\ UNCHANGED <<consVars, trieVars, poolVars>>
    \/ MemoryReturn /\ UNCHANGED <<consVars, trieVars, poolVars>>

SpecMemory == InitMemory /\ [][NextMemory]_vars

(***************************************************************************)
(* C39: MemoryAdapter.batch_modify is all-or-nothing: keys and vals of     *)
(* different lengths give BatchLengthMismatch and an item that does not    *)
(* encode gives that error, both with the database unchanged; otherwise    *)
(* every insert and remove is applied, in list order (the last pair of a   *)
(* key decides), under one write lock, so that a get or contains running   *)
(* beside the call never sees a batch applied in part.                     *)
(***************************************************************************)
\* what the batch leaves under key k: the modification of its last pair
BatchOutcome(keys, vals, before, k) ==
    LET idx == {i \in 1..Len(keys) : keys[i] = k}
        last == CHOOSE i \in idx : \A j \in idx : j <= i
    IN IF idx = {} THEN before[<<k>>]
       ELSE IF vals[last] = Remove THEN NoVal
       ELSE <<vals[last]>>

\* some pairs of the batch in flight are applied and some are not
BatchInPart == bm.pc = "write" /\ Len(bm.pairs) # Len(bm.keys)

C39_BatchModifyAllOrNothing ==
    /\ (ma.op = "batch_modify" /\ Len(ma.keys) # Len(ma.vals)) =>
           /\ ma.ret = "BatchLengthMismatch"
           /\ memory_db = ma.before
    /\ (ma.op = "batch_modify" /\ ma.ret \notin {"Ok", "pending"}) => memory_db = ma.before
    /\ (ma.op = "batch_modify" /\ ma.ret = "Ok") =>
           \A k \in MemKeys : memory_db[<<k>>] = BatchOutcome(ma.keys, ma.vals, ma.before, k)
    /\ ma.op \in {"get", "contains"} => ~BatchInPart

\* a batch that inserts k1 and removes it again, and stores k2
C39_Witness ==
    /\ ma.op = "batch_modify"
    /\ ma.ret = "Ok"
    /\ Len(ma.keys) = MaxMemBatch
    /\ ma.keys[1] = ma.keys[2]
    /\ ma.vals[1] # ma.vals[2]
    /\ memory_db # ma.before

====
